---- MODULE Spec2Model ----
(***************************************************************************)
(* Model of the streaming JPEG-to-indexed-BMP converter                    *)
(* (JpegToBmpConverter) of the crosspoint reader firmware.                 *)
(*                                                                         *)
(* Spec        the conversion call jpegFileToBmpStream, one step per       *)
(*             decoder call / source row, with byte and allocation counts  *)
(* SpecFit     the aspect-preserving fit computed in single precision      *)
(* SpecHeader  writeBmpHeader / getBytesPerRow as byte sequences           *)
(* SpecPack    writeIndexedPixel packing one output row                    *)
(* SpecFS      the per-row pixel loop with the Floyd-Steinberg ditherer    *)
(***************************************************************************)
EXTENDS Integers, Sequences, FiniteSets, TLC

(***************************************************************************)
(* Program constants                                                       *)
(***************************************************************************)
TARGET_MAX_WIDTH == 480
TARGET_MAX_HEIGHT == 800
MAX_IMAGE_WIDTH == 2048
MAX_IMAGE_HEIGHT == 3072
MAX_MCU_ROW_BYTES == 65536
BRIGHTNESS_BOOST == 10
FP_ONE == 65536

(***************************************************************************)
(* Integer helpers                                                         *)
(***************************************************************************)
RECURSIVE Pow2Rec(_)
Pow2Rec(n) == IF n <= 0 THEN 1 ELSE 2 * Pow2Rec(n - 1)

Pow2Table == [n \in 0 .. 30 |-> Pow2Rec(n)]

Pow2(n) == Pow2Table[n]

\* floor(log2 n) for n >= 1
RECURSIVE Log2(_)
Log2(n) == IF n <= 1 THEN 0 ELSE 1 + Log2(n \div 2)

\* C++ integer division truncates toward zero
TruncDiv(a, b) == IF a >= 0 THEN a \div b ELSE -((-a) \div b)

\* bitwise OR of two bytes
RECURSIVE BitOr(_, _)
BitOr(a, b) ==
  IF a = 0 THEN b
  ELSE IF b = 0 THEN a
  ELSE 2 * BitOr(a \div 2, b \div 2) + (IF (a % 2 = 1) \/ (b % 2 = 1) THEN 1 ELSE 0)

(***************************************************************************)
(* IEEE-754 single precision, as far as the scaling decision uses it.      *)
(* A positive float is [m, k] with 2^23 <= m < 2^24 and value m / 2^k      *)
(* (k may be negative).                                                    *)
(***************************************************************************)
RECURSIVE F32DivStep(_, _, _, _)
F32DivStep(q, r, b, k) ==
  IF q >= Pow2(23)
    THEN LET up == (2 * r > b) \/ (2 * r = b /\ q % 2 = 1)
             q1 == IF up THEN q + 1 ELSE q
         IN  IF q1 = Pow2(24) THEN [m |-> Pow2(23), k |-> k - 1]
                              ELSE [m |-> q1, k |-> k]
    ELSE F32DivStep(2 * q + (IF 2 * r >= b THEN 1 ELSE 0),
                    IF 2 * r >= b THEN 2 * r - b ELSE 2 * r, b, k + 1)

\* static_cast<float>(a) / b for integers 1 <= a, b < 2^23, round to nearest even
F32Div(a, b) == F32DivStep(a \div b, a % b, b, 0)

F32Less(f, g) == (f.k > g.k) \/ (f.k = g.k /\ f.m < g.m)

\* static_cast<int>(n * f) for an integer 1 <= n < 2^12 and a float f < 1:
\* the exact product n*m/2^k is rounded to 24 significant bits, then truncated.
F32MulTrunc(n, f) ==
  LET mh == f.m \div 4096
      ml == f.m % 4096
      B  == n * ml
      H  == n * mh + B \div 4096
      L  == B % 4096
      kk == f.k - 12
      I  == H \div Pow2(kk)
      Fh == H % Pow2(kk)
      e2 == IF I = 0 THEN -1 ELSE Log2(I)
      t  == f.k + e2 - 24
      up == IF t < 0 THEN FALSE
            ELSE IF t >= 12 THEN Fh >= Pow2(kk) - Pow2(t - 12)
            ELSE Fh = Pow2(kk) - 1 /\ L >= 4096 - Pow2(t)
  IN  IF up THEN I + 1 ELSE I

(***************************************************************************)
(* BMP encoder                                                             *)
(***************************************************************************)
\* variant: rows rounded up to whole bytes only, not to 4-byte words
getBytesPerRowUnpadded(width, bpp) == (width * bpp + 7) \div 8

getBytesPerRow(width, bpp) ==
  IF bpp = 8 THEN ((width + 3) \div 4) * 4
  ELSE IF bpp = 2 THEN ((width * 2 + 31) \div 32) * 4
  ELSE ((width + 31) \div 32) * 4

getColorsUsed(bpp) == IF bpp = 8 THEN 256 ELSE IF bpp = 2 THEN 4 ELSE 2

\* out.write(value & 0xFF), out.write((value >> 8) & 0xFF), ...: >> on a negative
\* int is an arithmetic shift, which is floor division
write16(value) == << value % 256, (value \div 256) % 256 >>

write32(value) ==
  << value % 256, (value \div 256) % 256, (value \div 65536) % 256,
     (value \div 16777216) % 256 >>

write32Signed(value) == write32(value)

\* for (i = 0; i < n; i++) write i, i, i, 0
GrayRamp(n) == [j \in 1 .. 4 * n |-> IF j % 4 = 0 THEN 0 ELSE (j - 1) \div 4]

Palette(bpp) ==
  IF bpp = 8 THEN GrayRamp(256)
  ELSE IF bpp = 2 THEN << 0, 0, 0, 0,  85, 85, 85, 0,  170, 170, 170, 0,  255, 255, 255, 0 >>
  ELSE << 0, 0, 0, 0,  255, 255, 255, 0 >>

\* variant: the height is stored positive (a bottom-up bitmap)
writeBmpHeaderBottomUp(width, height, bpp) ==
  LET bytesPerRow == getBytesPerRow(width, bpp)
      colorsUsed  == getColorsUsed(bpp)
      paletteSize == colorsUsed * 4
      imageSize   == bytesPerRow * height
      fileSize    == 14 + 40 + paletteSize + imageSize
  IN  << 66, 77 >> \o write32(fileSize) \o write32(0) \o write32(14 + 40 + paletteSize)
      \o write32(40) \o write32Signed(width) \o write32Signed(height)
      \o write16(1) \o write16(bpp) \o write32(0) \o write32(imageSize)
      \o write32(2835) \o write32(2835) \o write32(colorsUsed) \o write32(colorsUsed)
      \o Palette(bpp)

\* the bytes writeBmpHeader sends to the sink, in order
writeBmpHeader(width, height, bpp) ==
  LET bytesPerRow == getBytesPerRow(width, bpp)
      colorsUsed  == getColorsUsed(bpp)
      paletteSize == colorsUsed * 4
      imageSize   == bytesPerRow * height
      fileSize    == 14 + 40 + paletteSize + imageSize
  IN  << 66, 77 >> \o write32(fileSize) \o write32(0) \o write32(14 + 40 + paletteSize)
      \o write32(40) \o write32Signed(width) \o write32Signed(-height)
      \o write16(1) \o write16(bpp) \o write32(0) \o write32(imageSize)
      \o write32(2835) \o write32(2835) \o write32(colorsUsed) \o write32(colorsUsed)
      \o Palette(bpp)

\* a reader of the header: little-endian fields of a byte sequence
ReadU16(s, off) == s[off + 1] + 256 * s[off + 2]

ReadU32(s, off) ==
  s[off + 1] + 256 * s[off + 2] + 65536 * s[off + 3] + 16777216 * s[off + 4]

ReadS32(s, off) ==
  IF s[off + 4] >= 128
    THEN -((255 - s[off + 1]) + 256 * (255 - s[off + 2]) + 65536 * (255 - s[off + 3])
           + 16777216 * (255 - s[off + 4])) - 1
    ELSE ReadU32(s, off)

\* byte and lowest bit of the field writeIndexedPixel writes for pixel x
PixelByteIndex(x, bpp) == (x * bpp) \div 8

\* variant: fields are laid out from the least significant bit
PixelBitOffsetLsbFirst(x, bpp) == (x * bpp) % 8

PixelBitOffset(x, bpp) == 8 - bpp - ((x * bpp) % 8)

writeIndexedPixel(row, x, bpp, value) ==
  LET byteIndex == PixelByteIndex(x, bpp)
      bitOffset == PixelBitOffset(x, bpp)
  IN  [row EXCEPT ![byteIndex] = BitOr(@, (value * Pow2(bitOffset)) % 256)]

(***************************************************************************)
(* Scaling decision of jpegFileToBmpStream (USE_PRESCALE = true)           *)
(***************************************************************************)
\* variant: the comparison with the target box is off by one
NeedsScalingInclusive(srcW, srcH, targetW, targetH) == srcW >= targetW \/ srcH >= targetH

NeedsScaling(srcW, srcH, targetW, targetH) == srcW > targetW \/ srcH > targetH

ScaleDecision(srcW, srcH, targetW, targetH) ==
  IF NeedsScaling(srcW, srcH, targetW, targetH)
    THEN LET scaleToFitWidth  == F32Div(targetW, srcW)
             scaleToFitHeight == F32Div(targetH, srcH)
             scale == IF F32Less(scaleToFitWidth, scaleToFitHeight)
                        THEN scaleToFitWidth ELSE scaleToFitHeight
             w0 == F32MulTrunc(srcW, scale)
             h0 == F32MulTrunc(srcH, scale)
             w  == IF w0 < 1 THEN 1 ELSE w0
             h  == IF h0 < 1 THEN 1 ELSE h0
         IN  [outWidth |-> w, outHeight |-> h,
              scaleX_fp |-> (srcW * FP_ONE) \div w,
              scaleY_fp |-> (srcH * FP_ONE) \div h,
              needsScaling |-> TRUE]
    ELSE [outWidth |-> srcW, outHeight |-> srcH,
          scaleX_fp |-> FP_ONE, scaleY_fp |-> FP_ONE, needsScaling |-> FALSE]

\* source columns averaged into output column outX of one source row
SrcColumns(outX, scaleX, srcW, scaling) ==
  IF ~scaling THEN {outX}
  ELSE LET srcXStart == (outX * scaleX) \div FP_ONE
           srcXEnd   == ((outX + 1) * scaleX) \div FP_ONE
           range     == {srcX \in srcXStart .. (srcXEnd - 1) : srcX < srcW}
       IN  IF range = {} /\ srcXStart < srcW THEN {srcXStart} ELSE range

(***************************************************************************)
(* Bounds of the model                                                     *)
(***************************************************************************)
MaxSrcW == 9
MaxSrcH == 9
MaxTarget == 3
MaxFitSrc == 12
MaxFitTarget == 6
MaxHdrW == 40
MaxHdrH == 3
MaxPackBits == 12
MaxFsW == 3
MaxFsRows == 2

VARIABLES
  fitIn, fitOut       \* SpecFit: arguments and result of the scaling decision

fitVars == << fitIn, fitOut >>

VARIABLES
  hdrIn, hdrOut,      \* SpecHeader: width/height/depth and the bytes written
  hdrRowBytes         \* bytesPerRow computed next to the header

hdrVars == << hdrIn, hdrOut, hdrRowBytes >>

VARIABLES
  packBits, packW,    \* SpecPack: depth and width of the row being packed
  packX,              \* next pixel of the row
  rowBuffer,          \* the output row buffer (with room behind it, to see overruns)
  packLevels,         \* the levels packed so far
  packTouched         \* <<byte index, bit>> pairs of the fields written so far

packVars == << packBits, packW, packX, rowBuffer, packLevels, packTouched >>

VARIABLES
  fsWidth, fsLevelCount,      \* SpecFS: FloydSteinbergDitherer(width, levelCount)
  errorCurRow, errorNextRow, fsRowCount,
  fsY, fsX,                   \* output row and loop index of the pixel loop
  fsOrder,                    \* the x of the pixels processed so far in this row
  fsAhead,                    \* where the 7/16 share of the last pixel went
  fsGray,                     \* the sample given to the last processPixel call
  fsNextRows                  \* nextRow calls since construction or reset

fsVars == << fsWidth, fsLevelCount, errorCurRow, errorNextRow, fsRowCount,
             fsY, fsX, fsOrder, fsAhead, fsGray, fsNextRows >>

VARIABLES
  toneIn, toneOut             \* SpecTone: a gray sample and a depth; the values computed

toneVars == << toneIn, toneOut >>

VARIABLES
  rdFileLen, rdFileOpen,      \* SpecRead: JpegReadContext::file, its length, is it open
  rdFilePos,                  \* bytes the file has handed out so far
  bufferPos, bufferFilled,    \* JpegReadContext::bufferPos, bufferFilled
  rdDelivered,                \* bytes handed to the decoder so far
  rdLast                      \* the last call: request, bytes delivered, status, offset

readVars == << rdFileLen, rdFileOpen, rdFilePos, bufferPos, bufferFilled,
               rdDelivered, rdLast >>

VARIABLES
  atkWidth, atkLevelCount,    \* SpecAtk: AtkinsonDitherer(width, levelCount)
  errorRow0, errorRow1, errorRow2,
  atkY, atkX,                 \* output row and column of the pixel loop
  atkGray                     \* the sample given to the last processPixel call

atkVars == << atkWidth, atkLevelCount, errorRow0, errorRow1, errorRow2,
              atkY, atkX, atkGray >>

VARIABLES
  mcuIn, mcuOut               \* SpecMcu: MCU geometry and pixel; the offset read

mcuVars == << mcuIn, mcuOut >>

VARIABLES
  fxIn, fxOut                 \* SpecFixed: source and output size; the 16.16 values

fxVars == << fxIn, fxOut >>

VARIABLES
  taskKind,           \* SpecTask: which activity ("File", "Chapter", "Grid")
  renderingMutex,     \* who holds renderingMutex, "free", or "deleted"
  displayTaskHandle,  \* TRUE while the display task exists
  displayPc,          \* position of the display task inside displayTaskLoop
  loopPc,             \* position of the main task inside loop()
  exitPc,             \* position of the main task inside onExit()
  taskSelectorIndex,  \* selectorIndex of the activity
  updateRequired, renderRequired,
  didRequireRender,   \* local of GridBrowserActivity::displayTaskLoop
  shownIndex,         \* the selectorIndex the last render read
  stale,              \* loop() changed the selection and no render began since
  exitSawRender       \* a render was in progress when onExit was called

taskVars == << taskKind, renderingMutex, displayTaskHandle, displayPc, loopPc,
               exitPc, taskSelectorIndex, updateRequired, renderRequired,
               didRequireRender, shownIndex, stale, exitSawRender >>

TaskIdle ==
  /\ taskKind = "" /\ renderingMutex = "" /\ displayTaskHandle = FALSE
  /\ displayPc = "" /\ loopPc = "" /\ exitPc = "" /\ taskSelectorIndex = 0
  /\ updateRequired = FALSE /\ renderRequired = FALSE /\ didRequireRender = FALSE
  /\ shownIndex = -1 /\ stale = FALSE /\ exitSawRender = FALSE

VARIABLES
  bwHasFrame,         \* SpecBw: einkDisplay.getFrameBuffer() is not null
  frameBuffer,        \* the framebuffer, one value per chunk-sized part
  bwBufferPool,       \* "null" or "pool": the single allocation
  bwBufferChunks,     \* per chunk: "null", "pool" (inside the pool) or "own"
  bwChunkData,        \* what the memory each chunk pointer names holds, -1: none
  bwBufferValid,
  bwLivePools, bwLiveChunks,  \* allocations made and not freed
  bwOrphans,          \* allocations whose only pointer was overwritten
  bwLastAlloc,        \* outcome of the last allocateBwPools call, if any
  bwOp,               \* the member function called last
  bwStoreSince,       \* storeBwBuffer was called since the last restore or free
  bwStoredCopy,       \* the framebuffer at that storeBwBuffer call
  bwAllocFailed       \* some heap_caps_malloc returned null so far

bwVars == << bwHasFrame, frameBuffer, bwBufferPool, bwBufferChunks, bwChunkData,
             bwBufferValid, bwLivePools, bwLiveChunks, bwOrphans, bwLastAlloc,
             bwOp, bwStoreSince, bwStoredCopy, bwAllocFailed >>

BwIdle ==
  /\ bwHasFrame = FALSE /\ frameBuffer = << >> /\ bwBufferPool = ""
  /\ bwBufferChunks = << >> /\ bwChunkData = << >> /\ bwBufferValid = FALSE
  /\ bwLivePools = 0 /\ bwLiveChunks = 0 /\ bwOrphans = 0 /\ bwLastAlloc = << >>
  /\ bwOp = "" /\ bwStoreSince = FALSE /\ bwStoredCopy = << >>
  /\ bwAllocFailed = FALSE

VARIABLES
  selKind,            \* SpecSel: "File" (FileSelectionActivity) or "Xtc"
  selTotal,           \* files.size() / xtc->getChapters().size()
  selScreenHeight,    \* renderer.getScreenHeight()
  selectorIndex,
  selDivByZero,       \* a division or modulo by zero was evaluated
  selOp               \* the button event handled last

selVars == << selKind, selTotal, selScreenHeight, selectorIndex, selDivByZero,
              selOp >>

SelIdle ==
  /\ selKind = "" /\ selTotal = 0 /\ selScreenHeight = 0 /\ selectorIndex = 0
  /\ selDivByZero = FALSE /\ selOp = ""

VARIABLES
  gridFiles,          \* SpecGrid: files.size() of GridBrowserActivity
  page, gridSelectorIndex, previousSelectorIndex,
  gridUpdateRequired, gridRenderRequired, thumbsLoadingRequired,
  gridLoopPc,         \* position of the main task inside loop() / loadFiles()
  gridDisplayPc,      \* position of the display task
  gridRenderI,        \* i of the tile loop of render()
  thumbsPc,           \* position of the thumbnail task
  thumbsI, thumbsCount,  \* i and thumbsCount of loadThumbs()
  gridRenderingMutex, loadThumbsMutex,
  thumbsStale         \* the page changed and no loadThumbs run began since

gridVars == << gridFiles, page, gridSelectorIndex, previousSelectorIndex,
               gridUpdateRequired, gridRenderRequired, thumbsLoadingRequired,
               gridLoopPc, gridDisplayPc, gridRenderI, thumbsPc, thumbsI,
               thumbsCount, gridRenderingMutex, loadThumbsMutex, thumbsStale >>

GridIdle ==
  /\ gridFiles = 0 /\ page = 0 /\ gridSelectorIndex = 0
  /\ previousSelectorIndex = 0 /\ gridUpdateRequired = FALSE
  /\ gridRenderRequired = FALSE /\ thumbsLoadingRequired = FALSE
  /\ gridLoopPc = "" /\ gridDisplayPc = "" /\ gridRenderI = 0 /\ thumbsPc = ""
  /\ thumbsI = 0 /\ thumbsCount = 0 /\ gridRenderingMutex = ""
  /\ loadThumbsMutex = "" /\ thumbsStale = FALSE

uiVars == << taskVars, bwVars, selVars, gridVars >>

UiIdle == TaskIdle /\ BwIdle /\ SelIdle /\ GridIdle

moreVars == << toneVars, readVars, atkVars, mcuVars, fxVars, uiVars >>

FitIdle == fitIn = << >> /\ fitOut = << >>

HdrIdle == hdrIn = << >> /\ hdrOut = << >> /\ hdrRowBytes = 0

PackIdle ==
  /\ packBits = 0 /\ packW = 0 /\ packX = 0 /\ rowBuffer = << >>
  /\ packLevels = << >> /\ packTouched = {}

FsIdle ==
  /\ fsWidth = 0 /\ fsLevelCount = 0 /\ errorCurRow = << >> /\ errorNextRow = << >>
  /\ fsRowCount = 0 /\ fsY = 0 /\ fsX = 0 /\ fsOrder = << >> /\ fsAhead = -1
  /\ fsGray = -1 /\ fsNextRows = 0

ToneIdle == toneIn = << >> /\ toneOut = << >>

ReadIdle ==
  /\ rdFileLen = 0 /\ rdFileOpen = FALSE /\ rdFilePos = 0 /\ bufferPos = 0
  /\ bufferFilled = 0 /\ rdDelivered = 0 /\ rdLast = << >>

AtkIdle ==
  /\ atkWidth = 0 /\ atkLevelCount = 0 /\ errorRow0 = << >> /\ errorRow1 = << >>
  /\ errorRow2 = << >> /\ atkY = 0 /\ atkX = 0 /\ atkGray = -1

McuIdle == mcuIn = << >> /\ mcuOut = << >>

FxIdle == fxIn = << >> /\ fxOut = << >>

VARIABLES
  pc,                 \* position inside jpegFileToBmpStream
  bitsPerPixel, targetWidth, targetHeight,   \* arguments of the call
  policy,             \* compile-time quantisation policy of the build
  imageInfo,          \* pjpeg_image_info_t filled by pjpeg_decode_init
  outWidth, outHeight, scaleX_fp, scaleY_fp, needsScaling,
  live,               \* working buffers currently allocated by the call
  bytesWritten,       \* bytes sent to bmpOut so far
  hdrFileSize,        \* file-size field of the header that was written
  mcuX, mcuY, y,      \* loop counters
  decodeCalls,        \* calls of pjpeg_decode_mcu so far
  rowsWritten,        \* pixel rows sent to bmpOut so far
  rowsProcessed,      \* source rows that went through the row loop
  currentOutY, nextOutY_srcStart,
  rowCount,           \* uint16_t rowCount[outWidth] of the scaling path
  rowAccum,           \* uint32_t rowAccum[outWidth], for a source of gray SourceGray
  flushCounts,        \* the counts the last source row divided by, if it flushed
  ditherRows,         \* nextRow calls made on the ditherer of the call
  rowPolicies,        \* how the pixels of the rows written so far were quantised
  lastCols,           \* source columns read for each output column of the last row
  exitPath,           \* which return statement ended the call
  result              \* the value returned

convVars == << pc, bitsPerPixel, targetWidth, targetHeight, policy, imageInfo,
               outWidth, outHeight, scaleX_fp, scaleY_fp, needsScaling, live,
               bytesWritten, hdrFileSize, mcuX, mcuY, y, decodeCalls, rowsWritten,
               rowsProcessed, currentOutY, nextOutY_srcStart, rowCount, lastCols,
               rowAccum, flushCounts, ditherRows, rowPolicies,
               exitPath, result >>

rowGhosts == << rowAccum, flushCounts, ditherRows, rowPolicies >>

MoreIdle == ToneIdle /\ ReadIdle /\ AtkIdle /\ McuIdle /\ FxIdle /\ UiIdle

nonConv == << fitVars, hdrVars, packVars, fsVars, moreVars >>

(***************************************************************************)
(* Inputs of a conversion                                                  *)
(***************************************************************************)
Depths == {1, 2, 4, 8}             \* 4 stands for every unsupported depth
Policies == {"atkinson", "floyd-steinberg", "noise", "none"}
Targets == {<< TARGET_MAX_WIDTH, TARGET_MAX_HEIGHT >>}
             \cup ((1 .. MaxTarget) \X (1 .. MaxTarget))

CeilDiv(a, b) == (a + b - 1) \div b

\* what picojpeg reports for a baseline JPEG: MCUs of 8 or 16 pixels a side
\* covering the image
ImageInfo(w, h, mw, mh) ==
  [m_width |-> w, m_height |-> h, m_MCUWidth |-> mw, m_MCUHeight |-> mh,
   m_MCUSPerRow |-> CeilDiv(w, mw), m_MCUSPerCol |-> CeilDiv(h, mh)]

\* a source of 256 x 256 pixels in 16 x 16 MCUs
LargeInfos == {ImageInfo(256, 256, 16, 16)}

ImageInfos ==
  {ImageInfo(w, h, mw, mh) :
     w \in (1 .. MaxSrcW) \cup {MAX_IMAGE_WIDTH + 1},
     h \in (1 .. MaxSrcH) \cup {MAX_IMAGE_HEIGHT + 1},
     mw \in {8, 16}, mh \in {8, 16}}
    \cup LargeInfos

NoInfo == ImageInfo(0, 0, 8, 8)

ConvIdle ==
  /\ pc = "idle" /\ bitsPerPixel = 0 /\ targetWidth = 0 /\ targetHeight = 0
  /\ policy = "none" /\ imageInfo = NoInfo
  /\ outWidth = 0 /\ outHeight = 0 /\ scaleX_fp = FP_ONE /\ scaleY_fp = FP_ONE
  /\ needsScaling = FALSE /\ live = {} /\ bytesWritten = 0 /\ hdrFileSize = 0
  /\ mcuX = 0 /\ mcuY = 0 /\ y = 0 /\ decodeCalls = 0 /\ rowsWritten = 0
  /\ rowsProcessed = 0 /\ currentOutY = 0 /\ nextOutY_srcStart = 0
  /\ rowCount = << >> /\ lastCols = << >> /\ exitPath = "none" /\ result = "none"
  /\ rowAccum = << >> /\ flushCounts = << >> /\ ditherRows = 0 /\ rowPolicies = {}

BaseIdle == ConvIdle /\ FitIdle /\ HdrIdle /\ PackIdle /\ FsIdle

converterVars == << convVars, fitVars, hdrVars, packVars, fsVars,
                    toneVars, readVars, atkVars, mcuVars, fxVars >>

ConverterIdle ==
  BaseIdle /\ ToneIdle /\ ReadIdle /\ AtkIdle /\ McuIdle /\ FxIdle

ConvInit ==
  /\ pc = "entry"
  /\ bitsPerPixel \in Depths
  /\ \E t \in Targets : targetWidth = t[1] /\ targetHeight = t[2]
  /\ policy \in Policies
  /\ imageInfo = NoInfo
  /\ outWidth = 0 /\ outHeight = 0 /\ scaleX_fp = FP_ONE /\ scaleY_fp = FP_ONE
  /\ needsScaling = FALSE /\ live = {} /\ bytesWritten = 0 /\ hdrFileSize = 0
  /\ mcuX = 0 /\ mcuY = 0 /\ y = 0 /\ decodeCalls = 0 /\ rowsWritten = 0
  /\ rowsProcessed = 0 /\ currentOutY = 0 /\ nextOutY_srcStart = 0
  /\ rowCount = << >> /\ lastCols = << >> /\ exitPath = "none" /\ result = "none"
  /\ rowAccum = << >> /\ flushCounts = << >> /\ ditherRows = 0 /\ rowPolicies = {}

indexedOutput == bitsPerPixel # 8
bytesPerRow == getBytesPerRow(outWidth, bitsPerPixel)
mcuRowPixels == imageInfo.m_width * imageInfo.m_MCUHeight

\* return false / return true
Return(path, value) ==
  /\ pc' = "done" /\ exitPath' = path /\ result' = value

(***************************************************************************)
(* jpegFileToBmpStream, lines 446-505: depth check, decoder init, ceilings, *)
(* scaling decision                                                        *)
(***************************************************************************)
RejectDepth ==
  /\ pc = "entry"
  /\ UNCHANGED nonConv
  /\ UNCHANGED rowGhosts
  /\ bitsPerPixel \notin {1, 2, 8}
  /\ Return("depth", "false")
  /\ UNCHANGED << bitsPerPixel, targetWidth, targetHeight, policy, imageInfo,
                  outWidth, outHeight, scaleX_fp, scaleY_fp, needsScaling, live,
                  bytesWritten, hdrFileSize, mcuX, mcuY, y, decodeCalls, rowsWritten,
                  rowsProcessed, currentOutY, nextOutY_srcStart, rowCount, lastCols >>

\* pjpeg_decode_init reports an error (the stream ends in the headers, ...)
InitFail ==
  /\ pc = "entry"
  /\ UNCHANGED nonConv
  /\ UNCHANGED rowGhosts
  /\ bitsPerPixel \in {1, 2, 8}
  /\ Return("init", "false")
  /\ UNCHANGED << bitsPerPixel, targetWidth, targetHeight, policy, imageInfo,
                  outWidth, outHeight, scaleX_fp, scaleY_fp, needsScaling, live,
                  bytesWritten, hdrFileSize, mcuX, mcuY, y, decodeCalls, rowsWritten,
                  rowsProcessed, currentOutY, nextOutY_srcStart, rowCount, lastCols >>

\* variant: the size ceilings are not applied
TooLargeNever(info) == FALSE

TooLarge(info) == info.m_width > MAX_IMAGE_WIDTH \/ info.m_height > MAX_IMAGE_HEIGHT

\* variant: the ceilings are only tested once the header is out
RejectSizeAfterHeader ==
  /\ pc = "entry"
  /\ UNCHANGED nonConv
  /\ UNCHANGED rowGhosts
  /\ bitsPerPixel \in {1, 2, 8}
  /\ \E info \in ImageInfos :
       /\ TooLarge(info)
       /\ imageInfo' = info
       /\ bytesWritten' = bytesWritten + 54 + 4 * getColorsUsed(bitsPerPixel)
  /\ Return("size", "false")
  /\ UNCHANGED << bitsPerPixel, targetWidth, targetHeight, policy,
                  outWidth, outHeight, scaleX_fp, scaleY_fp, needsScaling, live,
                  hdrFileSize, mcuX, mcuY, y, decodeCalls, rowsWritten,
                  rowsProcessed, currentOutY, nextOutY_srcStart, rowCount, lastCols >>

RejectSize ==
  /\ pc = "entry"
  /\ UNCHANGED nonConv
  /\ UNCHANGED rowGhosts
  /\ bitsPerPixel \in {1, 2, 8}
  /\ \E info \in ImageInfos :
       /\ TooLarge(info)
       /\ imageInfo' = info
  /\ Return("size", "false")
  /\ UNCHANGED << bitsPerPixel, targetWidth, targetHeight, policy,
                  outWidth, outHeight, scaleX_fp, scaleY_fp, needsScaling, live,
                  bytesWritten, hdrFileSize, mcuX, mcuY, y, decodeCalls, rowsWritten,
                  rowsProcessed, currentOutY, nextOutY_srcStart, rowCount, lastCols >>

Begin ==
  /\ pc = "entry"
  /\ UNCHANGED nonConv
  /\ UNCHANGED rowGhosts
  /\ bitsPerPixel \in {1, 2, 8}
  /\ \E info \in ImageInfos :
       /\ ~TooLarge(info)
       /\ imageInfo' = info
       /\ \E d \in {ScaleDecision(info.m_width, info.m_height, targetWidth, targetHeight)} :
              /\ outWidth' = d.outWidth
              /\ outHeight' = d.outHeight
              /\ scaleX_fp' = d.scaleX_fp
              /\ scaleY_fp' = d.scaleY_fp
              /\ needsScaling' = d.needsScaling
  /\ pc' = "header"
  /\ UNCHANGED << bitsPerPixel, targetWidth, targetHeight, policy, live,
                  bytesWritten, hdrFileSize, mcuX, mcuY, y, decodeCalls, rowsWritten,
                  rowsProcessed, currentOutY, nextOutY_srcStart, rowCount, lastCols,
                  exitPath, result >>

(***************************************************************************)
(* lines 507-511: the header goes to the sink                              *)
(***************************************************************************)
WriteHeader ==
  /\ pc = "header"
  /\ UNCHANGED nonConv
  /\ UNCHANGED rowGhosts
  /\ \E hdr \in {writeBmpHeader(outWidth, outHeight, bitsPerPixel)} :
         /\ bytesWritten' = bytesWritten + Len(hdr)
         /\ hdrFileSize' = ReadU32(hdr, 2)
  /\ pc' = "alloc"
  /\ UNCHANGED << bitsPerPixel, targetWidth, targetHeight, policy, imageInfo,
                  outWidth, outHeight, scaleX_fp, scaleY_fp, needsScaling, live,
                  mcuX, mcuY, y, decodeCalls, rowsWritten,
                  rowsProcessed, currentOutY, nextOutY_srcStart, rowCount, lastCols,
                  exitPath, result >>

(***************************************************************************)
(* lines 513-564: row buffer, MCU row buffer, ditherer, accumulators.      *)
(* malloc may return null; operator new does not return on failure.        *)
(***************************************************************************)
Ditherers ==
  IF indexedOutput /\ policy = "atkinson" THEN {"atkinsonDitherer"}
  ELSE IF indexedOutput /\ policy = "floyd-steinberg" THEN {"fsDitherer"}
  ELSE {}

Accumulators == IF needsScaling THEN {"rowAccum", "rowCount"} ELSE {}

Allocate ==
  /\ pc = "alloc"
  /\ UNCHANGED nonConv
  /\ UNCHANGED << flushCounts, ditherRows, rowPolicies >>
  /\ \E rowOk \in BOOLEAN, mcuOk \in BOOLEAN :
       IF ~rowOk
         THEN /\ Return("rowalloc", "false")
              /\ UNCHANGED << live, nextOutY_srcStart, rowCount, rowAccum >>
       ELSE IF mcuRowPixels > MAX_MCU_ROW_BYTES
         THEN /\ Return("mcurow", "false")      \* free(rowBuffer)
              /\ UNCHANGED << live, nextOutY_srcStart, rowCount, rowAccum >>
       ELSE IF ~mcuOk
         THEN /\ Return("mcualloc", "false")    \* free(rowBuffer)
              /\ UNCHANGED << live, nextOutY_srcStart, rowCount, rowAccum >>
       ELSE /\ live' = {"rowBuffer", "mcuRowBuffer"} \cup Ditherers \cup Accumulators
            /\ nextOutY_srcStart' = IF needsScaling THEN scaleY_fp ELSE 0
            /\ rowCount' = IF needsScaling THEN [i \in 1 .. outWidth |-> 0] ELSE << >>
            /\ rowAccum' = IF needsScaling THEN [i \in 1 .. outWidth |-> 0] ELSE << >>
            /\ pc' = IF imageInfo.m_MCUSPerCol > 0 THEN "decode" ELSE "cleanup"
            /\ UNCHANGED << exitPath, result >>
  /\ UNCHANGED << bitsPerPixel, targetWidth, targetHeight, policy, imageInfo,
                  outWidth, outHeight, scaleX_fp, scaleY_fp, needsScaling,
                  bytesWritten, hdrFileSize, mcuX, mcuY, y, decodeCalls, rowsWritten,
                  rowsProcessed, currentOutY, lastCols >>

(***************************************************************************)
(* lines 569-617: one call of pjpeg_decode_mcu                             *)
(***************************************************************************)
\* the loop header of the MCU rows, entered again after the rows of MCU row my
NextMcuRow(my) ==
  /\ mcuY' = my
  /\ mcuX' = 0
  /\ pc' = IF my < imageInfo.m_MCUSPerCol THEN "decode" ELSE "cleanup"

\* a non-zero status: PJPG_NO_MORE_BLOCKS or a decode error
DecodeMcuFail ==
  /\ pc = "decode"
  /\ UNCHANGED nonConv
  /\ UNCHANGED rowGhosts
  /\ decodeCalls' = decodeCalls + 1
  /\ live' = live \ {"mcuRowBuffer", "rowBuffer"}
  /\ Return("mcufail", "false")
  /\ UNCHANGED << bitsPerPixel, targetWidth, targetHeight, policy, imageInfo,
                  outWidth, outHeight, scaleX_fp, scaleY_fp, needsScaling,
                  bytesWritten, hdrFileSize, mcuX, mcuY, y, rowsWritten,
                  rowsProcessed, currentOutY, nextOutY_srcStart, rowCount, lastCols >>

\* variant: the column loop runs while mcuX <= m_MCUSPerRow
DecodeMcuOkExtraColumn ==
  /\ pc = "decode"
  /\ UNCHANGED nonConv
  /\ UNCHANGED rowGhosts
  /\ decodeCalls' = decodeCalls + 1
  /\ IF mcuX + 1 <= imageInfo.m_MCUSPerRow
       THEN /\ mcuX' = mcuX + 1
            /\ UNCHANGED << pc, mcuY, y >>
       ELSE LET startRow == mcuY * imageInfo.m_MCUHeight
            IN  IF startRow < imageInfo.m_height
                  THEN /\ pc' = "row"
                       /\ y' = startRow
                       /\ UNCHANGED << mcuX, mcuY >>
                  ELSE /\ NextMcuRow(mcuY + 1)
                       /\ UNCHANGED y
  /\ UNCHANGED << bitsPerPixel, targetWidth, targetHeight, policy, imageInfo,
                  outWidth, outHeight, scaleX_fp, scaleY_fp, needsScaling, live,
                  bytesWritten, hdrFileSize, rowsWritten,
                  rowsProcessed, currentOutY, nextOutY_srcStart, rowCount, lastCols,
                  exitPath, result >>

\* status 0: the blocks of MCU (mcuX, mcuY) are copied into mcuRowBuffer
DecodeMcuOk ==
  /\ pc = "decode"
  /\ UNCHANGED nonConv
  /\ UNCHANGED rowGhosts
  /\ decodeCalls' = decodeCalls + 1
  /\ IF mcuX + 1 < imageInfo.m_MCUSPerRow
       THEN /\ mcuX' = mcuX + 1
            /\ UNCHANGED << pc, mcuY, y >>
       ELSE LET startRow == mcuY * imageInfo.m_MCUHeight
            IN  IF startRow < imageInfo.m_height
                  THEN /\ pc' = "row"
                       /\ y' = startRow
                       /\ UNCHANGED << mcuX, mcuY >>
                  ELSE /\ NextMcuRow(mcuY + 1)
                       /\ UNCHANGED y
  /\ UNCHANGED << bitsPerPixel, targetWidth, targetHeight, policy, imageInfo,
                  outWidth, outHeight, scaleX_fp, scaleY_fp, needsScaling, live,
                  bytesWritten, hdrFileSize, rowsWritten,
                  rowsProcessed, currentOutY, nextOutY_srcStart, rowCount, lastCols,
                  exitPath, result >>

(***************************************************************************)
(* lines 623-726: one source row y of the decoded MCU row                  *)
(***************************************************************************)
\* variant: the boundary itself does not count as crossed
RowBoundaryCrossedStrict(yy, boundary, outY, outH) ==
  (yy + 1) * FP_ONE > boundary /\ outY < outH

\* the flush test of the scaling path for source row yy
RowBoundaryCrossed(yy, boundary, outY, outH) ==
  (yy + 1) * FP_ONE >= boundary /\ outY < outH

\* the gray of every source pixel: a white image, the largest sums
SourceGray == 255

\* how the pixels of one output row are quantised (lines 630-645, 691-706)
RowPolicy ==
  IF ~indexedOutput THEN "unquantised"
  ELSE IF "atkinsonDitherer" \in live THEN "atkinson"
  ELSE IF "fsDitherer" \in live THEN "floyd-steinberg"
  ELSE IF policy = "noise" THEN "noise"
  ELSE "plain"

\* variant: only the unscaled path advances the ditherer
NextRowCallsUnscaledOnly(scaled) ==
  IF indexedOutput /\ live \cap {"atkinsonDitherer", "fsDitherer"} # {} /\ ~scaled
    THEN 1 ELSE 0

\* nextRow calls made after the pixels of an output row (lines 648-651, 709-712)
NextRowCalls(scaled) ==
  IF indexedOutput /\ live \cap {"atkinsonDitherer", "fsDitherer"} # {}
    THEN 1 ELSE 0

ProcessRow ==
  /\ pc = "row"
  /\ UNCHANGED nonConv
  /\ LET cols == [i \in 1 .. outWidth |->
                    SrcColumns(i - 1, scaleX_fp, imageInfo.m_width, needsScaling)]
         endRow == (mcuY + 1) * imageInfo.m_MCUHeight
     IN  /\ lastCols' = cols
         /\ rowsProcessed' = rowsProcessed + 1
         /\ IF ~needsScaling
              THEN /\ bytesWritten' = bytesWritten + bytesPerRow
                   /\ rowsWritten' = rowsWritten + 1
                   /\ rowPolicies' = rowPolicies \cup {RowPolicy}
                   /\ ditherRows' = ditherRows + NextRowCalls(FALSE)
                   /\ flushCounts' = << >>
                   /\ UNCHANGED << currentOutY, nextOutY_srcStart, rowCount, rowAccum >>
              ELSE LET counts == [i \in 1 .. outWidth |->
                                    (rowCount[i] + Cardinality(cols[i])) % 65536]
                       sums   == [i \in 1 .. outWidth |->
                                    rowAccum[i] + SourceGray * Cardinality(cols[i])]
                   IN  IF RowBoundaryCrossed(y, nextOutY_srcStart, currentOutY, outHeight)
                         THEN /\ bytesWritten' = bytesWritten + bytesPerRow
                              /\ rowsWritten' = rowsWritten + 1
                              /\ rowPolicies' = rowPolicies \cup {RowPolicy}
                              /\ ditherRows' = ditherRows + NextRowCalls(TRUE)
                              /\ flushCounts' = counts
                              /\ currentOutY' = currentOutY + 1
                              /\ rowAccum' = [i \in 1 .. outWidth |-> 0]
                              /\ rowCount' = [i \in 1 .. outWidth |-> 0]
                              /\ nextOutY_srcStart' = (currentOutY + 2) * scaleY_fp
                         ELSE /\ rowCount' = counts
                              /\ rowAccum' = sums
                              /\ flushCounts' = << >>
                              /\ UNCHANGED << bytesWritten, rowsWritten, currentOutY,
                                              nextOutY_srcStart, rowPolicies,
                                              ditherRows >>
         /\ y' = y + 1
         /\ IF y + 1 < endRow /\ y + 1 < imageInfo.m_height
              THEN UNCHANGED << pc, mcuX, mcuY >>
              ELSE NextMcuRow(mcuY + 1)
  /\ UNCHANGED << bitsPerPixel, targetWidth, targetHeight, policy, imageInfo,
                  outWidth, outHeight, scaleX_fp, scaleY_fp, needsScaling, live,
                  hdrFileSize, decodeCalls, exitPath, result >>

(***************************************************************************)
(* lines 729-746: clean up and return true                                 *)
(***************************************************************************)
Cleanup ==
  /\ pc = "cleanup"
  /\ UNCHANGED nonConv
  /\ UNCHANGED rowGhosts
  /\ live' = live \ {"rowAccum", "rowCount", "atkinsonDitherer", "fsDitherer",
                     "mcuRowBuffer", "rowBuffer"}
  /\ Return("ok", "true")
  /\ UNCHANGED << bitsPerPixel, targetWidth, targetHeight, policy, imageInfo,
                  outWidth, outHeight, scaleX_fp, scaleY_fp, needsScaling,
                  bytesWritten, hdrFileSize, mcuX, mcuY, y, decodeCalls, rowsWritten,
                  rowsProcessed, currentOutY, nextOutY_srcStart, rowCount, lastCols >>

Init == ConvInit /\ FitIdle /\ HdrIdle /\ PackIdle /\ FsIdle /\ MoreIdle

Next ==
  \/ RejectDepth
  \/ InitFail
  \/ RejectSize
  \/ Begin
  \/ WriteHeader
  \/ Allocate
  \/ DecodeMcuFail
  \/ DecodeMcuOk
  \/ ProcessRow
  \/ Cleanup

vars == << convVars, fitVars, hdrVars, packVars, fsVars, moreVars >>

Spec == Init /\ [][Next]_vars

(***************************************************************************)
(* Properties of the conversion call (specification Spec)                  *)
(***************************************************************************)
Returned == pc = "done"

SourceFits ==
  imageInfo.m_width <= targetWidth /\ imageInfo.m_height <= targetHeight

\* C17: on the scaling path at most one output row is flushed per source row;
\* a flush divides by counts that are all >= 1, leaves every sum and count at
\* zero and raises currentOutY by exactly one (so currentOutY is the number of
\* rows written); currentOutY never exceeds outHeight and equals it once the
\* last source row has been processed.
C17_FlushPerOutputRow ==
  needsScaling =>
    /\ currentOutY <= rowsProcessed
    /\ currentOutY = rowsWritten
    /\ currentOutY <= outHeight
    /\ flushCounts # << >> =>
         /\ \A i \in 1 .. outWidth : flushCounts[i] >= 1
         /\ \A i \in 1 .. outWidth : rowCount[i] = 0 /\ rowAccum[i] = 0
    /\ rowsProcessed = imageInfo.m_height => currentOutY = outHeight

\* the one way of quantising that the depth and the build select
ExpectedRowPolicy ==
  IF bitsPerPixel = 8 THEN "unquantised"
  ELSE IF policy = "none" THEN "plain"
  ELSE policy

\* C20: within one conversion every pixel of every row written is quantised by
\* the same single policy, the one fixed by depth and build before the first
\* pixel (none at all for 8-bit output); with an error-diffusion ditherer active
\* nextRow is called exactly once after each output row, in the unscaled and in
\* the scaled path, so after k rows written the ditherer has advanced k rows.
C20_OnePolicyOneNextRowPerRow ==
  /\ rowPolicies \subseteq {ExpectedRowPolicy}
  /\ rowsWritten > 0 => rowPolicies = {ExpectedRowPolicy}
  /\ pc \in {"decode", "row"} =>
       (ExpectedRowPolicy \in {"atkinson", "floyd-steinberg"}) = (Ditherers \cap live # {})
  /\ ditherRows = (IF ExpectedRowPolicy \in {"atkinson", "floyd-steinberg"}
                     THEN rowsWritten ELSE 0)

\* two rows written on the scaling path with the Atkinson ditherer
C20_Witness ==
  /\ exitPath = "ok" /\ needsScaling /\ bitsPerPixel = 2 /\ policy = "atkinson"
  /\ rowsWritten = 2 /\ ditherRows = 2 /\ rowPolicies = {"atkinson"}
  /\ rowsProcessed > 2

\* C14: pjpeg_decode_mcu is called in row-major order (the call number of MCU
\* (mcuX, mcuY) is mcuY * MCUSPerRow + mcuX); the source rows of MCU row k are
\* processed only after all its MCUs were decoded and before any MCU of row
\* k+1; a successful conversion makes MCUSPerRow * MCUSPerCol calls; after the
\* first failing call the conversion has returned false, no row of the failing
\* MCU row was processed, and nothing further can happen.
C14_McuRasterOrder ==
  LET perRow == imageInfo.m_MCUSPerRow
      perCol == imageInfo.m_MCUSPerCol
      mh     == imageInfo.m_MCUHeight
      h      == imageInfo.m_height
      rowsBefore(k) == IF k * mh < h THEN k * mh ELSE h
  IN  /\ pc = "decode" =>
           /\ mcuY < perCol /\ mcuX < perRow
           /\ decodeCalls = mcuY * perRow + mcuX
           /\ rowsProcessed = rowsBefore(mcuY)
      /\ pc = "row" =>
           /\ decodeCalls = (mcuY + 1) * perRow
           /\ rowsBefore(mcuY) <= y /\ y < rowsBefore(mcuY + 1)
           /\ rowsProcessed = y
      /\ exitPath = "ok" =>
           /\ decodeCalls = perRow * perCol
           /\ rowsProcessed = h
      /\ exitPath = "mcufail" =>
           /\ Returned /\ result = "false"
           /\ decodeCalls = mcuY * perRow + mcuX + 1
           /\ rowsProcessed = rowsBefore(mcuY)
      /\ Returned => ~ENABLED (DecodeMcuOk \/ DecodeMcuFail \/ ProcessRow)

\* a 2 x 2 grid of MCUs converted to the end
C14_Witness ==
  /\ exitPath = "ok" /\ imageInfo.m_MCUSPerRow = 2 /\ imageInfo.m_MCUSPerCol = 2
  /\ decodeCalls = 4 /\ rowsProcessed = imageInfo.m_height

\* C1: on every return path every working buffer allocated during the call has
\* been released: no allocation of the call is live when it returns.
C1_AllBuffersReleased == Returned => live = {}

\* C2: when the data ends before the first MCU is decoded (the decoder's init
\* fails, or the first decode-next-MCU call fails) the call returns false and
\* not a single byte has reached the sink.
C2_TruncatedWritesNothing ==
  (Returned /\ (exitPath = "init" \/ (exitPath = "mcufail" /\ decodeCalls = 1)))
    => (result = "false" /\ bytesWritten = 0)

\* C3: whenever the call returns true the bytes written are
\* 54 + 4*paletteEntries + bytesPerRow*outHeight, which is the file size the
\* header declares, and exactly outHeight rows followed the header.
C3_WrittenSizeIsDeclaredSize ==
  (Returned /\ result = "true") =>
    /\ bytesWritten = 54 + 4 * getColorsUsed(bitsPerPixel)
                        + getBytesPerRow(outWidth, bitsPerPixel) * outHeight
    /\ bytesWritten = hdrFileSize
    /\ rowsWritten = outHeight

C3_Witness ==
  /\ Returned /\ result = "true" /\ needsScaling
  /\ outHeight >= 2 /\ outHeight < imageInfo.m_height /\ bitsPerPixel = 1

\* C4: a call rejected for a policy violation (depth, width/height ceiling, MCU
\* row size) returns false with no decode-next-MCU call made and no byte written.
C4_PolicyRejectionIsEarly ==
  (Returned /\ exitPath \in {"depth", "size", "mcurow"}) =>
    (result = "false" /\ decodeCalls = 0 /\ bytesWritten = 0)

C4_Witness ==
  /\ Returned /\ exitPath = "size" /\ imageInfo.m_height > MAX_IMAGE_HEIGHT
  /\ imageInfo.m_width <= MAX_IMAGE_WIDTH

\* C6: when the source fits the target box nothing is scaled: the output has the
\* source's size, both scale factors are 1.0, every source row processed so far
\* gave exactly one output row, and output column x reads source column x.
C6_NoScalingWhenSourceFits ==
  (outWidth > 0 /\ SourceFits) =>
    /\ ~needsScaling
    /\ outWidth = imageInfo.m_width /\ outHeight = imageInfo.m_height
    /\ scaleX_fp = FP_ONE /\ scaleY_fp = FP_ONE
    /\ rowsWritten = rowsProcessed
    /\ rowsProcessed > 0 =>
         /\ Len(lastCols) = imageInfo.m_width
         /\ \A i \in 1 .. Len(lastCols) : lastCols[i] = {i - 1}

C6_Witness ==
  /\ Returned /\ result = "true" /\ SourceFits
  /\ imageInfo.m_width = targetWidth /\ rowsProcessed >= 2 /\ rowsWritten = rowsProcessed

(***************************************************************************)
(* SpecFit: the scaling decision on its own, over a wider range of sizes   *)
(***************************************************************************)
nonFit == << convVars, hdrVars, packVars, fsVars, moreVars >>

FitExamples ==
  { << 1000, 1500, 480, 800 >>, << 300, 450, 480, 800 >>, << 533, 533, 480, 800 >>,
    << 2048, 3072, 480, 800 >>, << 2048, 3072, 1, 1 >>, << 1, 22, 2, 13 >> }

FitInputs ==
  ((1 .. MaxFitSrc) \X (1 .. MaxFitSrc) \X (1 .. MaxFitTarget) \X (1 .. MaxFitTarget))
    \cup FitExamples

FitInit ==
  /\ fitIn \in FitInputs
  /\ fitOut = << >>
  /\ ConvIdle /\ HdrIdle /\ PackIdle /\ FsIdle /\ MoreIdle

\* lines 476-505 for a source fitIn[1] x fitIn[2] and a target fitIn[3] x fitIn[4]
Fit ==
  /\ fitOut = << >>
  /\ fitOut' = ScaleDecision(fitIn[1], fitIn[2], fitIn[3], fitIn[4])
  /\ UNCHANGED << fitIn, nonFit >>

FitNext == Fit

SpecFit == FitInit /\ [][FitNext]_vars

FitDone == fitOut # << >>

\* C7: when the source exceeds the target box the output is no larger than the
\* source and the target on both axes, keeps the aspect ratio within one pixel,
\* and fills at least one axis of the target exactly; 1000x1500 into 480x800
\* gives 480x720.
C7_FitFillsOneAxis ==
  (FitDone /\ NeedsScaling(fitIn[1], fitIn[2], fitIn[3], fitIn[4])) =>
    LET srcW == fitIn[1]
        srcH == fitIn[2]
        targetW == fitIn[3]
        targetH == fitIn[4]
        widthBound == targetW * srcH <= targetH * srcW
        Abs(v) == IF v < 0 THEN -v ELSE v
    IN  /\ fitOut.outWidth <= srcW /\ fitOut.outHeight <= srcH
        /\ fitOut.outWidth <= targetW /\ fitOut.outHeight <= targetH
        /\ IF widthBound
             THEN /\ Abs(fitOut.outWidth - targetW) <= 1
                  /\ Abs(fitOut.outHeight * srcW - srcH * targetW) <= srcW
             ELSE /\ Abs(fitOut.outHeight - targetH) <= 1
                  /\ Abs(fitOut.outWidth * srcH - srcW * targetH) <= srcH
        /\ (fitOut.outWidth = targetW \/ fitOut.outHeight = targetH)
        /\ (fitIn = << 1000, 1500, 480, 800 >> =>
              fitOut.outWidth = 480 /\ fitOut.outHeight = 720)

(***************************************************************************)
(* SpecHeader: the header and the row width for a given output size        *)
(***************************************************************************)
nonHdr == << convVars, fitVars, packVars, fsVars, moreVars >>

HdrInputs ==
  [w : (1 .. MaxHdrW) \cup {300, 480}, h : (1 .. MaxHdrH) \cup {450}, d : {1, 2, 8}]

HdrInit ==
  /\ hdrIn \in HdrInputs
  /\ hdrOut = << >> /\ hdrRowBytes = 0
  /\ ConvIdle /\ FitIdle /\ PackIdle /\ FsIdle /\ MoreIdle

\* lines 508-509: writeBmpHeader(bmpOut, outWidth, outHeight, bitsPerPixel) and
\* bytesPerRow = getBytesPerRow(outWidth, bitsPerPixel)
EmitHeader ==
  /\ hdrOut = << >>
  /\ hdrOut' = writeBmpHeader(hdrIn.w, hdrIn.h, hdrIn.d)
  /\ hdrRowBytes' = getBytesPerRow(hdrIn.w, hdrIn.d)
  /\ UNCHANGED << hdrIn, nonHdr >>

HdrNext == EmitHeader

SpecHeader == HdrInit /\ [][HdrNext]_vars

HdrDone == hdrOut # << >>

PaletteEntries(d) == Pow2(d)

\* gray value of palette entry i of a written header (blue, green, red, reserved)
PaletteGray(hdr, i) == hdr[54 + 4 * i + 1]

ExpectedGray(d, i) ==
  IF d = 1 THEN (IF i = 0 THEN 0 ELSE 255)
  ELSE IF d = 2 THEN 85 * i
  ELSE i

\* what a written header declares for its input
HeaderAsDeclared ==
  LET n == PaletteEntries(hdrIn.d)
  IN  /\ hdrOut[1] = 66 /\ hdrOut[2] = 77
      /\ ReadS32(hdrOut, 18) = hdrIn.w
      /\ ReadS32(hdrOut, 22) = -hdrIn.h
      /\ ReadU16(hdrOut, 26) = 1
      /\ ReadU16(hdrOut, 28) = hdrIn.d
      /\ ReadU32(hdrOut, 30) = 0
      /\ ReadU32(hdrOut, 10) = 54 + 4 * n
      /\ ReadU32(hdrOut, 2) = 54 + 4 * n + hdrRowBytes * hdrIn.h
      /\ Len(hdrOut) = 54 + 4 * n
      /\ \A i \in 0 .. n - 1 :
           /\ PaletteGray(hdrOut, i) = ExpectedGray(hdrIn.d, i)
           /\ hdrOut[54 + 4 * i + 2] = PaletteGray(hdrOut, i)
           /\ hdrOut[54 + 4 * i + 3] = PaletteGray(hdrOut, i)
           /\ hdrOut[54 + 4 * i + 4] = 0

\* the 300x450 source at depth 2 under the default target box
IsExample300x450 ==
  hdrIn = [w |-> ScaleDecision(300, 450, TARGET_MAX_WIDTH, TARGET_MAX_HEIGHT).outWidth,
           h |-> ScaleDecision(300, 450, TARGET_MAX_WIDTH, TARGET_MAX_HEIGHT).outHeight,
           d |-> 2]

\* C8 (as stated): the header declares width w, height -h, one plane, depth d,
\* no compression, pixel offset 54 + 4*paletteEntries and file size
\* offset + bytesPerRow*h, is exactly 54 + 4*paletteEntries bytes long and
\* carries the fixed gray palette of depth d; 300x450 at depth 2 under target
\* 480x800 gives width 300, height -450 and 40 bytes per row.
C8_HeaderFieldsRow40 ==
  HdrDone =>
    /\ HeaderAsDeclared
    /\ IsExample300x450 =>
         /\ ReadS32(hdrOut, 18) = 300 /\ ReadS32(hdrOut, 22) = -450
         /\ hdrRowBytes = 40

\* C8 (amended): the same header fields, length and palette; 300x450 at depth 2
\* under target 480x800 gives width 300, height -450 and 76 bytes per row
\* (600 bits are 19 words of 32 bits).
C8_HeaderFields ==
  HdrDone =>
    /\ HeaderAsDeclared
    /\ IsExample300x450 =>
         /\ ReadS32(hdrOut, 18) = 300 /\ ReadS32(hdrOut, 22) = -450
         /\ hdrRowBytes = 76
         /\ ReadU32(hdrOut, 34) = 76 * 450

C8_Witness == HdrDone /\ hdrIn = [w |-> 300, h |-> 450, d |-> 2]

\* C9: the row width in bytes is a multiple of 4, the smallest one that holds
\* ceil(w*d/8) bytes, and is 120, 60 and 480 for w = 480 at depths 2, 1 and 8.
C9_RowBytesPaddedToWord ==
  HdrDone =>
    LET need == (hdrIn.w * hdrIn.d + 7) \div 8
    IN  /\ hdrRowBytes % 4 = 0
        /\ hdrRowBytes >= need
        /\ hdrRowBytes - 4 < need
        /\ (hdrIn.w = 480 =>
              hdrRowBytes = (IF hdrIn.d = 2 THEN 120 ELSE IF hdrIn.d = 1 THEN 60 ELSE 480))

C9_Witness == HdrDone /\ hdrIn.w = 480 /\ hdrIn.d = 1 /\ hdrRowBytes = 60

(***************************************************************************)
(* SpecPack: one row packed pixel by pixel (lines 628-653, indexed output) *)
(***************************************************************************)
nonPack == << convVars, fitVars, hdrVars, fsVars, moreVars >>

PackSlack == 4      \* bytes modelled behind the row buffer

PackInit ==
  /\ packBits \in {1, 2}
  /\ packW \in 1 .. (MaxPackBits \div packBits)
  /\ packX = 0
  /\ rowBuffer = [b \in 0 .. getBytesPerRow(packW, packBits) + PackSlack - 1 |-> 0]
  /\ packLevels = << >>
  /\ packTouched = {}
  /\ ConvIdle /\ FitIdle /\ HdrIdle /\ FsIdle /\ MoreIdle

\* writeIndexedPixel(rowBuffer, x, bitsPerPixel, indexedValue) for the next x;
\* the level is whatever the quantiser returned, any of 0 .. levelCount - 1
PackPixel ==
  /\ packX < packW
  /\ \E value \in 0 .. Pow2(packBits) - 1 :
       /\ rowBuffer' = writeIndexedPixel(rowBuffer, packX, packBits, value)
       /\ packLevels' = Append(packLevels, value)
  /\ packTouched' = packTouched \cup
       {<< PixelByteIndex(packX, packBits), PixelBitOffset(packX, packBits) + j >> :
          j \in 0 .. packBits - 1}
  /\ packX' = packX + 1
  /\ UNCHANGED << packBits, packW, nonPack >>

PackNext == PackPixel

SpecPack == PackInit /\ [][PackNext]_vars

\* the extraction the claim states for pixel x of a packed row
ExtractPixel(row, x, d) ==
  (row[(x * d) \div 8] \div Pow2(8 - d - ((x * d) % 8))) % Pow2(d)

\* GfxRenderer::drawBitmap: outputRow[bmpX / 4] >> (6 - ((bmpX * 2) % 8)) & 0x3
drawBitmapPixel(outputRow, bmpX) ==
  (outputRow[bmpX \div 4] \div Pow2(6 - ((bmpX * 2) % 8))) % 4

\* the value of byte b of a row holding the levels of pixels 0 .. n-1, MSB first
RECURSIVE PackedByte(_, _, _, _)
PackedByte(levels, n, d, b) ==
  IF n = 0 THEN 0
  ELSE PackedByte(levels, n - 1, d, b)
       + (IF ((n - 1) * d) \div 8 = b
            THEN levels[n] * Pow2(8 - d - (((n - 1) * d) % 8)) ELSE 0)

\* C10: packing levels with writeIndexedPixel into a zeroed row touches only
\* bytes below getBytesPerRow(w, d), gives every pixel bits of its own, lets
\* every level be read back with the stated shift and mask (for d = 2 the
\* one drawBitmap uses), and leaves every padding bit zero.
C10_PackedRowReadsBack ==
  packBits \in {1, 2} =>
    /\ \A t \in packTouched : t[1] \in 0 .. getBytesPerRow(packW, packBits) - 1
    /\ Cardinality(packTouched) = packBits * packX
    /\ \A x \in 0 .. packX - 1 :
         /\ ExtractPixel(rowBuffer, x, packBits) = packLevels[x + 1]
         /\ packBits = 2 => drawBitmapPixel(rowBuffer, x) = packLevels[x + 1]
    /\ \A b \in DOMAIN rowBuffer :
         rowBuffer[b] = PackedByte(packLevels, packX, packBits, b)

C10_Witness ==
  /\ packBits = 2 /\ packW = 6 /\ packX = packW
  /\ packLevels = << 3, 0, 1, 2, 3, 1 >>

(***************************************************************************)
(* Tone mapping and quantisation (USE_BRIGHTNESS, GAMMA_CORRECTION on)     *)
(***************************************************************************)
CONTRAST_FACTOR_NUM == 115     \* static_cast<int>(CONTRAST_FACTOR * 100)

Clamp255(v) == IF v < 0 THEN 0 ELSE IF v > 255 THEN 255 ELSE v

applyGamma(gray) ==
  LET product == gray * 255
      x1 == IF gray > 0 THEN (gray + product \div gray) \div 2 ELSE gray
      x2 == IF gray > 0 THEN (x1 + product \div x1) \div 2 ELSE gray
  IN  IF x2 > 255 THEN 255 ELSE x2

applyContrast(gray) ==
  Clamp255(TruncDiv((gray - 128) * CONTRAST_FACTOR_NUM, 100) + 128)

adjustPixel(gray) == applyGamma(Clamp255(applyContrast(gray) + BRIGHTNESS_BOOST))

\* variant: the brightness boost is added without clamping to 0..255
adjustPixelStepsUnclamped(gray) ==
  LET c == applyContrast(gray)
      b == c + BRIGHTNESS_BOOST
  IN  [contrast |-> c, brightness |-> b, gamma |-> applyGamma(b)]

\* adjustPixel, keeping the value of gray after each of its three steps
adjustPixelSteps(gray) ==
  LET c == applyContrast(gray)
      b == Clamp255(c + BRIGHTNESS_BOOST)
  IN  [contrast |-> c, brightness |-> b, gamma |-> applyGamma(b)]

quantizeAdjustedSimple(gray, levelCount) ==
  IF levelCount <= 1 THEN 0
  ELSE LET g == Clamp255(gray)
           l0 == (g * levelCount) \div 256
       IN  IF l0 >= levelCount THEN levelCount - 1 ELSE l0

\* variant: the value of a level is the lower edge of its band, level*256/levelCount
quantizeAdjustedWithValueBandEdge(gray, levelCount) ==
  IF levelCount <= 1 THEN [level |-> 0, quantizedValue |-> 0]
  ELSE LET g == Clamp255(gray)
           l0 == (g * levelCount) \div 256
           level == IF l0 >= levelCount THEN levelCount - 1 ELSE l0
       IN  [level |-> level, quantizedValue |-> (level * 256) \div levelCount]

\* the level and the 0-255 value it stands for
quantizeAdjustedWithValue(gray, levelCount) ==
  IF levelCount <= 1 THEN [level |-> 0, quantizedValue |-> 0]
  ELSE LET g == Clamp255(gray)
           l0 == (g * levelCount) \div 256
           level == IF l0 >= levelCount THEN levelCount - 1 ELSE l0
       IN  [level |-> level, quantizedValue |-> (level * 255) \div (levelCount - 1)]

\* a value stored into an int16_t
ToInt16(v) == ((v + 32768) % 65536) - 32768

(***************************************************************************)
(* SpecTone: one gray sample through adjustPixel and the quantisers        *)
(***************************************************************************)
nonTone == << convVars, fitVars, hdrVars, packVars, fsVars,
              readVars, atkVars, mcuVars, fxVars, uiVars >>

ToneDepths == {1, 2, 8}

ToneInit ==
  /\ toneIn \in [gray : 0 .. 255, d : ToneDepths]
  /\ toneOut = << >>
  /\ BaseIdle /\ ReadIdle /\ AtkIdle /\ McuIdle /\ FxIdle /\ UiIdle

\* adjustPixel(gray); quantizeAdjustedWithValue(gray, 1 << d) as the ditherers
\* call it, the palette entry of the level in the header written for depth d,
\* and quantizeAdjustedSimple of the reconstructed value
ToneSample ==
  /\ toneIn # << >>
  /\ toneOut = << >>
  /\ \E q \in {quantizeAdjustedWithValue(toneIn.gray, Pow2(toneIn.d))} :
       \E hdr \in {writeBmpHeader(1, 1, toneIn.d)} :
         toneOut' = [steps |-> adjustPixelSteps(toneIn.gray),
                     level |-> q.level,
                     quantizedValue |-> q.quantizedValue,
                     paletteGray |-> PaletteGray(hdr, q.level),
                     requantized |-> quantizeAdjustedSimple(q.quantizedValue,
                                                            Pow2(toneIn.d))]
  /\ UNCHANGED << toneIn, nonTone >>

ToneNext == ToneSample

SpecTone == ToneInit /\ [][ToneNext]_vars

ToneDone == toneOut # << >>

\* C11: for every depth d in {1,2,8} and every level L of 2^d, the value that
\* quantizeAdjustedWithValue reconstructs for L is the gray of palette entry L
\* of the header written for d, and quantising that value again gives L.
C11_LevelsMatchPalette ==
  ToneDone =>
    /\ toneOut.level \in 0 .. Pow2(toneIn.d) - 1
    /\ toneOut.quantizedValue = toneOut.paletteGray
    /\ toneOut.requantized = toneOut.level

C11_Witness ==
  /\ ToneDone /\ toneIn.d = 2 /\ toneOut.level = 2 /\ toneOut.quantizedValue = 170

\* C12: adjustPixel applies contrast, then brightness, then gamma; the value
\* after each of the three steps, and so the result, lies in 0..255.
C12_ToneStepsInRange ==
  ToneDone =>
    /\ toneOut.steps.contrast = applyContrast(toneIn.gray)
    /\ toneOut.steps.brightness =
         Clamp255(toneOut.steps.contrast + BRIGHTNESS_BOOST)
    /\ toneOut.steps.gamma = applyGamma(toneOut.steps.brightness)
    /\ toneOut.steps.gamma = adjustPixel(toneIn.gray)
    /\ toneOut.steps.contrast \in 0 .. 255
    /\ toneOut.steps.brightness \in 0 .. 255
    /\ toneOut.steps.gamma \in 0 .. 255

\* a bright sample: contrast alone reaches 255 and the boost would pass it
C12_Witness ==
  /\ ToneDone /\ toneIn.gray = 250
  /\ toneOut.steps.contrast = 255 /\ toneOut.steps.brightness = 255

(***************************************************************************)
(* SpecRead: jpegReadCallback over one JpegReadContext                     *)
(***************************************************************************)
nonRead == << convVars, fitVars, hdrVars, packVars, fsVars,
              toneVars, atkVars, mcuVars, fxVars, uiVars >>

JpegReadBufferSize == 512      \* uint8_t buffer[512]

MaxFileLen == 1030

FileLens == {0, 1, 511, 512, 513, MaxFileLen}

\* buf_size is an unsigned char; picojpeg asks for 252 bytes at a time
ReadRequests == {0, 1, 252, 255}

ReadInit ==
  /\ rdFileOpen \in BOOLEAN
  /\ rdFileLen \in (IF rdFileOpen THEN FileLens ELSE {0})
  /\ rdFilePos = 0
  /\ bufferPos = 0 /\ bufferFilled = 0
  /\ rdDelivered = 0
  /\ rdLast = << >>
  /\ BaseIdle /\ ToneIdle /\ AtkIdle /\ McuIdle /\ FxIdle /\ UiIdle

\* file.read(buffer, sizeof(buffer)): the bytes left in the file, at most 512
FileRead(filePos, fileLen) ==
  IF fileLen - filePos < JpegReadBufferSize THEN fileLen - filePos
  ELSE JpegReadBufferSize

\* variant: the refill keeps the old read position of the buffer
RefillKeepPos(pos, filePos, fileLen) ==
  [bufferFilled |-> FileRead(filePos, fileLen),
   bufferPos    |-> pos,
   filePos      |-> filePos + FileRead(filePos, fileLen)]

\* bufferFilled = file.read(...); bufferPos = 0
Refill(pos, filePos, fileLen) ==
  [bufferFilled |-> FileRead(filePos, fileLen),
   bufferPos    |-> 0,
   filePos      |-> filePos + FileRead(filePos, fileLen)]

\* if (!context || !context->file) return PJPG_STREAM_READ_ERROR
ReadCallbackNoFile ==
  /\ ~rdFileOpen
  /\ \E K \in ReadRequests :
       rdLast' = [K |-> K, n |-> 0, status |-> "PJPG_STREAM_READ_ERROR",
                  before |-> rdDelivered, offset |-> rdFilePos]
  /\ UNCHANGED << rdFileLen, rdFileOpen, rdFilePos, bufferPos, bufferFilled,
                  rdDelivered, nonRead >>

\* one call with an open file: refill when the buffer is used up, then copy
\* min(available, buf_size) bytes from buffer + bufferPos
ReadCallback ==
  /\ rdFileOpen
  /\ \E K \in ReadRequests :
       \E c \in {IF bufferPos >= bufferFilled
                 THEN Refill(bufferPos, rdFilePos, rdFileLen)
                 ELSE [bufferFilled |-> bufferFilled, bufferPos |-> bufferPos,
                       filePos |-> rdFilePos]} :
         IF bufferPos >= bufferFilled /\ c.bufferFilled = 0
         THEN /\ bufferFilled' = 0
              /\ bufferPos' = c.bufferPos
              /\ rdFilePos' = c.filePos
              /\ rdDelivered' = rdDelivered
              /\ rdLast' = [K |-> K, n |-> 0, status |-> "ok",
                            before |-> rdDelivered, offset |-> c.filePos]
         ELSE \E toRead \in {IF c.bufferFilled - c.bufferPos < K
                              THEN c.bufferFilled - c.bufferPos ELSE K} :
                /\ bufferFilled' = c.bufferFilled
                /\ bufferPos' = c.bufferPos + toRead
                /\ rdFilePos' = c.filePos
                /\ rdDelivered' = rdDelivered + toRead
                /\ rdLast' = [K |-> K, n |-> toRead, status |-> "ok",
                              before |-> rdDelivered,
                              offset |-> c.filePos - c.bufferFilled + c.bufferPos]
  /\ UNCHANGED << rdFileLen, rdFileOpen, nonRead >>

ReadNext == ReadCallbackNoFile \/ ReadCallback

SpecRead == ReadInit /\ [][ReadNext]_vars

\* C13: every call delivers at most the K bytes asked for; the bytes delivered
\* are the next bytes of the file (rdLast.offset is the file offset of the first
\* byte copied, rdLast.before the number of bytes delivered before the call), so
\* the concatenation is a prefix of the file; 0 <= bufferPos <= bufferFilled <=
\* 512 after every call; a call made when the whole file has been delivered
\* delivers 0 bytes with a success status.
C13_ReadDeliversPrefix ==
  /\ 0 <= bufferPos /\ bufferPos <= bufferFilled
  /\ bufferFilled <= JpegReadBufferSize
  /\ rdDelivered <= rdFileLen
  /\ (rdLast # << >> /\ rdFileOpen) =>
       /\ rdLast.n >= 0 /\ rdLast.n <= rdLast.K
       /\ rdLast.status = "ok"
       /\ rdDelivered = rdLast.before + rdLast.n
       /\ rdLast.n > 0 => rdLast.offset = rdLast.before
       /\ rdLast.before = rdFileLen => rdLast.n = 0

\* a 513-byte file read to its end, and one more call after that
C13_Witness ==
  /\ rdFileOpen /\ rdFileLen = 513 /\ rdLast # << >>
  /\ rdLast.before = 513 /\ rdLast.K = 252 /\ rdLast.n = 0 /\ rdLast.status = "ok"

\* errRow[i] += delta on an int16_t row
AddError(errRow, i, delta) == [errRow EXCEPT ![i] = ToInt16(@ + delta)]

ZeroRow(n) == [i \in 0 .. n - 1 |-> 0]

(***************************************************************************)
(* AtkinsonDitherer                                                        *)
(***************************************************************************)
\* variant: the share for two rows down is stored one column to the right
atkProcessPixelShifted(row0, row1, row2, levelCount, gray, x) ==
  LET adjusted == Clamp255(adjustPixel(gray) + row0[x + 2])
      q     == quantizeAdjustedWithValue(adjusted, levelCount)
      error == (adjusted - q.quantizedValue) \div 8
  IN  [row0  |-> AddError(AddError(row0, x + 3, error), x + 4, error),
       row1  |-> AddError(AddError(AddError(row1, x + 1, error), x + 2, error),
                          x + 3, error),
       row2  |-> AddError(row2, x + 3, error),
       level |-> q.level,
       error |-> error]

\* processPixel(gray, x): the three rows afterwards, the level and the share
atkProcessPixel(row0, row1, row2, levelCount, gray, x) ==
  LET adjusted == Clamp255(adjustPixel(gray) + row0[x + 2])
      q     == quantizeAdjustedWithValue(adjusted, levelCount)
      error == (adjusted - q.quantizedValue) \div 8
  IN  [row0  |-> AddError(AddError(row0, x + 3, error), x + 4, error),
       row1  |-> AddError(AddError(AddError(row1, x + 1, error), x + 2, error),
                          x + 3, error),
       row2  |-> AddError(row2, x + 2, error),
       level |-> q.level,
       error |-> error]

(***************************************************************************)
(* SpecAtk: the pixel loop with the Atkinson ditherer                      *)
(***************************************************************************)
nonAtk == << convVars, fitVars, hdrVars, packVars, fsVars,
             toneVars, readVars, mcuVars, fxVars, uiVars >>

MaxAtkW == 3

MaxAtkRows == 3

AtkSamples == {0, 128}

AtkInit ==
  /\ atkWidth \in 1 .. MaxAtkW
  /\ atkLevelCount \in {2, 4}
  /\ errorRow0 = ZeroRow(atkWidth + 4)
  /\ errorRow1 = ZeroRow(atkWidth + 4)
  /\ errorRow2 = ZeroRow(atkWidth + 4)
  /\ atkY = 0 /\ atkX = 0 /\ atkGray = -1
  /\ BaseIdle /\ ToneIdle /\ ReadIdle /\ McuIdle /\ FxIdle /\ UiIdle

\* one iteration of for (x = 0; x < outWidth; x++):
\* atkinsonDitherer->processPixel(gray, x)
AtkPixel ==
  /\ atkY < MaxAtkRows
  /\ atkX < atkWidth
  /\ \E gray \in AtkSamples :
       \E r \in {atkProcessPixel(errorRow0, errorRow1, errorRow2, atkLevelCount,
                                 gray, atkX)} :
         /\ errorRow0' = r.row0
         /\ errorRow1' = r.row1
         /\ errorRow2' = r.row2
         /\ atkGray' = gray
  /\ atkX' = atkX + 1
  /\ UNCHANGED << atkWidth, atkLevelCount, atkY, nonAtk >>

\* the end of the row: atkinsonDitherer->nextRow(), the row is written, next y
AtkNextRow ==
  /\ atkY < MaxAtkRows
  /\ atkX = atkWidth
  /\ errorRow0' = errorRow1
  /\ errorRow1' = errorRow2
  /\ errorRow2' = ZeroRow(atkWidth + 4)
  /\ atkY' = atkY + 1
  /\ atkX' = 0
  /\ atkGray' = -1
  /\ UNCHANGED << atkWidth, atkLevelCount, nonAtk >>

AtkNext == AtkPixel \/ AtkNextRow

SpecAtk == AtkInit /\ [][AtkNext]_vars

\* the cell of pixel x in an error row
AtkCell(x) == x + 2

\* the row afterwards is the row before plus e in the cells of the pixels xs
AtkRowGains(before, after, xs, e) ==
  after = [i \in DOMAIN before |->
             before[i] + (IF i \in {AtkCell(x) : x \in xs} THEN e ELSE 0)]

\* C15: a pixel step at (x, y) with adjusted = clamp(adjustPixel(gray) + error
\* of (x, y)) and e = (adjusted - reconstructed) >> 3 adds e to exactly the six
\* cells (x+1,y), (x+2,y), (x-1,y+1), (x,y+1), (x+1,y+1), (x,y+2); nextRow makes
\* row y+1 the current row and row y+2 the next one, cell for cell, and the new
\* third row is all zero.
C15_AtkinsonSixShares ==
  [][ /\ atkX' = atkX + 1 =>
           LET adjusted == Clamp255(adjustPixel(atkGray') + errorRow0[AtkCell(atkX)])
               reconstructed ==
                 (((adjusted * atkLevelCount) \div 256) * 255) \div (atkLevelCount - 1)
               e == (adjusted - reconstructed) \div 8
           IN  /\ AtkRowGains(errorRow0, errorRow0', {atkX + 1, atkX + 2}, e)
               /\ AtkRowGains(errorRow1, errorRow1', {atkX - 1, atkX, atkX + 1}, e)
               /\ AtkRowGains(errorRow2, errorRow2', {atkX}, e)
      /\ atkY' = atkY + 1 =>
           /\ errorRow0' = errorRow1
           /\ errorRow1' = errorRow2
           /\ \A i \in DOMAIN errorRow2' : errorRow2'[i] = 0
    ]_vars

\* row 2, pixel 0 already processed with the error that pixels of rows 0 and 1
\* sent to it, and a pixel of row 2 has sent a share two rows down
C15_Witness ==
  /\ atkWidth = 3 /\ atkY = 2 /\ atkX = 2
  /\ errorRow2[AtkCell(0)] # 0 /\ errorRow2[AtkCell(1)] # 0
  /\ errorRow1[AtkCell(-1)] # 0

(***************************************************************************)
(* SpecMcu: where the sample of a pixel of one MCU is read (lines 590-602) *)
(***************************************************************************)
nonMcu == << convVars, fitVars, hdrVars, packVars, fsVars,
             toneVars, readVars, atkVars, fxVars, uiVars >>

\* pixelOffset for the pixel (blockX, blockY) of an MCU mcuPixelWidth wide
McuPixelOffset(mcuPixelWidth, blockX, blockY) ==
  LET blockCol == blockX \div 8
      blockRow == blockY \div 8
      localX == blockX % 8
      localY == blockY % 8
      blocksPerRow == mcuPixelWidth \div 8
      blockIndex == blockRow * blocksPerRow + blockCol
  IN  blockIndex * 64 + localY * 8 + localX

McuInputs ==
  {[mw |-> mw, mh |-> mh, blockX |-> bx, blockY |-> by] :
     mw \in {8, 16}, mh \in {8, 16}, bx \in 0 .. 15, by \in 0 .. 15}

McuInit ==
  /\ mcuIn \in {i \in McuInputs : i.blockX < i.mw /\ i.blockY < i.mh}
  /\ mcuOut = << >>
  /\ BaseIdle /\ ToneIdle /\ ReadIdle /\ AtkIdle /\ FxIdle /\ UiIdle

\* one iteration of the two block loops: the offset read from m_pMCUBufR
McuPixel ==
  /\ mcuIn # << >>
  /\ mcuOut = << >>
  /\ mcuOut' = [pixelOffset |-> McuPixelOffset(mcuIn.mw, mcuIn.blockX, mcuIn.blockY)]
  /\ UNCHANGED << mcuIn, nonMcu >>

McuNext == McuPixel

SpecMcu == McuInit /\ [][McuNext]_vars

\* base of the 8x8 block (blockCol, blockRow) in the layout the comment at
\* line 589 gives: 0,64,128,192 for 16x16, 0,64 for 16x8, 0,128 for 8x16
DocumentedBlockBase(blockCol, blockRow) == blockCol * 64 + blockRow * 128

\* C18: for each MCU geometry the sample of pixel (x, y) of the MCU is read at
\* base(block) + (y mod 8) * 8 + (x mod 8) with the base of the documented
\* layout (0/64/128/192 for 16x16, 0/64 for 16x8, 0/128 for 8x16), and no
\* other pixel of the MCU is read at the same offset.
C18_McuBlockLayout ==
  mcuOut # << >> =>
    /\ mcuOut.pixelOffset =
         DocumentedBlockBase(mcuIn.blockX \div 8, mcuIn.blockY \div 8)
           + (mcuIn.blockY % 8) * 8 + (mcuIn.blockX % 8)
    /\ \A bx \in 0 .. mcuIn.mw - 1, by \in 0 .. mcuIn.mh - 1 :
         << bx, by >> # << mcuIn.blockX, mcuIn.blockY >> =>
           McuPixelOffset(mcuIn.mw, bx, by) # mcuOut.pixelOffset

(***************************************************************************)
(* SpecFixed: the 16.16 values of the scaling path as uint32_t             *)
(* A uint32_t holding a 16.16 number is the record [int, frac] of its two  *)
(* 16-bit halves; carry is what the operation lost above bit 31.           *)
(***************************************************************************)
nonFx == << convVars, fitVars, hdrVars, packVars, fsVars,
            toneVars, readVars, atkVars, mcuVars, uiVars >>

\* static_cast<uint32_t>(n) << 16
FxShl16(n) == [int |-> n % FP_ONE, frac |-> 0, carry |-> n \div FP_ONE]

\* v / d for a uint32_t v and 0 < d < 32768
FxDiv(v, d) ==
  [int |-> v.int \div d,
   frac |-> ((v.int % d) * FP_ONE + v.frac) \div d,
   carry |-> 0]

\* static_cast<uint32_t>(n) * v
FxMul(n, v) ==
  LET lo == n * v.frac
      hi == n * v.int + lo \div FP_ONE
  IN  [int |-> hi % FP_ONE, frac |-> lo % FP_ONE, carry |-> hi \div FP_ONE]

MaxFxSrc == 4

MaxFxOut == 3

\* sizes a JPEG header can declare: small ones, the ceilings, and one beyond
FxWidths == (1 .. MaxFxSrc) \cup {1000, MAX_IMAGE_WIDTH, 40000}

FxHeights == (1 .. MaxFxSrc) \cup {1500, MAX_IMAGE_HEIGHT, 40000}

FxOuts(src, ceiling, target) ==
  {o \in (1 .. MaxFxOut) \cup {target} \cup (IF src <= ceiling THEN {src} ELSE {}) :
     o <= src}

FxInit ==
  /\ \E srcW \in FxWidths, srcH \in FxHeights :
       \E outW \in FxOuts(srcW, MAX_IMAGE_WIDTH, TARGET_MAX_WIDTH),
          outH \in FxOuts(srcH, MAX_IMAGE_HEIGHT, TARGET_MAX_HEIGHT) :
         fxIn = [srcW |-> srcW, srcH |-> srcH, outW |-> outW, outH |-> outH]
  /\ fxOut = << >>
  /\ BaseIdle /\ ToneIdle /\ ReadIdle /\ AtkIdle /\ McuIdle /\ UiIdle

\* line 470: the source is larger than the ceilings, nothing is computed
FxReject ==
  /\ fxIn # << >> /\ fxOut = << >>
  /\ TooLarge([m_width |-> fxIn.srcW, m_height |-> fxIn.srcH])
  /\ fxOut' = [rejected |-> TRUE]
  /\ UNCHANGED << fxIn, nonFx >>

\* lines 499-500, 662-663, 685, 723: every 16.16 value of one conversion that
\* scales fxIn.srcW x fxIn.srcH to fxIn.outW x fxIn.outH
FxConvert ==
  /\ fxIn # << >> /\ fxOut = << >>
  /\ ~TooLarge([m_width |-> fxIn.srcW, m_height |-> fxIn.srcH])
  /\ \E wFp \in {FxShl16(fxIn.srcW)}, hFp \in {FxShl16(fxIn.srcH)} :
       \E sx \in {FxDiv(wFp, fxIn.outW)}, sy \in {FxDiv(hFp, fxIn.outH)} :
         fxOut' =
           [rejected |-> FALSE,
            scaleX_fp |-> sx,
            scaleY_fp |-> sy,
            lastBoundary |-> FxMul(fxIn.outH + 1, sy),
            wrapped |->
              {"srcW<<16" : i \in {1} \cap {wFp.carry}}
              \cup {"srcH<<16" : i \in {1} \cap {hFp.carry}}
              \cup {"outX*scaleX_fp" :
                      outX \in {x \in 0 .. fxIn.outW - 1 : FxMul(x, sx).carry > 0}}
              \cup {"(outX+1)*scaleX_fp" :
                      outX \in {x \in 0 .. fxIn.outW - 1 : FxMul(x + 1, sx).carry > 0}}
              \cup {"(y+1)<<16" :
                      yy \in {r \in 0 .. fxIn.srcH - 1 : FxShl16(r + 1).carry > 0}}
              \cup {"(currentOutY+1)*scaleY_fp" :
                      outY \in {r \in 1 .. fxIn.outH : FxMul(r + 1, sy).carry > 0}}]
  /\ UNCHANGED << fxIn, nonFx >>

FxNext == FxReject \/ FxConvert

SpecFixed == FxInit /\ [][FxNext]_vars

\* C19: for every source up to 2048 x 3072 and every output size with
\* 1 <= outW <= srcW and 1 <= outH <= srcH, none of srcW<<16, srcH<<16,
\* outX*scaleX_fp, (outX+1)*scaleX_fp, (y+1)<<16 and (currentOutY+1)*scaleY_fp
\* exceeds 2^32 - 1: no uint32_t operation of the scaling path wraps.
C19_FixedPointFitsUint32 ==
  (fxOut # << >> /\ ~fxOut.rejected) =>
    /\ fxOut.wrapped = {}
    /\ fxOut.lastBoundary.carry = 0

\* the largest source scaled to one pixel: scaleY_fp is 3072.0 and the last
\* boundary computed is 6144.0
C19_Witness ==
  /\ fxOut # << >> /\ ~fxOut.rejected
  /\ fxIn = [srcW |-> MAX_IMAGE_WIDTH, srcH |-> MAX_IMAGE_HEIGHT, outW |-> 1, outH |-> 1]
  /\ fxOut.scaleY_fp.int = 3072 /\ fxOut.lastBoundary.int = 6144

(***************************************************************************)
(* SpecTask: the display task, loop() and onExit() of the list activities  *)
(* FileSelectionActivity ("File"), Epub/XtcReaderChapterSelectionActivity  *)
(* ("Chapter") and GridBrowserActivity ("Grid"), from the state onEnter    *)
(* leaves. The main task runs loop() and onExit(); steps of the two tasks  *)
(* interleave at every access of a shared variable.                        *)
(***************************************************************************)
nonTask == << converterVars, bwVars, selVars, gridVars >>

MaxTaskItems == 2

TaskKinds == {"File", "Chapter", "Grid"}

\* onEnter: the mutex exists, the first update is requested, the task is created
TaskInit ==
  /\ taskKind \in TaskKinds
  /\ renderingMutex = "free"
  /\ displayTaskHandle = TRUE
  /\ displayPc = IF taskKind = "File" THEN "take" ELSE "check"
  /\ loopPc = "idle"
  /\ exitPc = "none"
  /\ taskSelectorIndex \in (IF taskKind = "Chapter" THEN 0 .. MaxTaskItems - 1 ELSE {0})
  /\ updateRequired = (taskKind # "Grid")
  /\ renderRequired = (taskKind = "Grid")
  /\ didRequireRender = FALSE
  /\ shownIndex = -1 /\ stale = FALSE /\ exitSawRender = FALSE
  /\ ConverterIdle /\ BwIdle /\ SelIdle /\ GridIdle

displayLocals == << didRequireRender, shownIndex >>

mainLocals == << loopPc, exitPc, exitSawRender >>

\* xSemaphoreTake(renderingMutex, portMAX_DELAY) in displayTaskLoop
DisplayTake ==
  /\ displayTaskHandle /\ displayPc = "take"
  /\ renderingMutex = "free"
  /\ renderingMutex' = "display"
  /\ displayPc' = IF taskKind = "File" THEN "check" ELSE "render"
  /\ UNCHANGED << taskKind, displayTaskHandle, taskSelectorIndex, updateRequired,
                  renderRequired, displayLocals, stale, mainLocals, nonTask >>

\* if (updateRequired), if (renderRequired || updateRequired)
DisplayCheck ==
  /\ displayTaskHandle /\ displayPc = "check"
  /\ displayPc' = IF updateRequired \/ (taskKind = "Grid" /\ renderRequired)
                  THEN "clear"
                  ELSE IF taskKind = "File" THEN "give" ELSE "delay"
  /\ UNCHANGED << taskKind, renderingMutex, displayTaskHandle, taskSelectorIndex,
                  updateRequired, renderRequired, displayLocals, stale, mainLocals,
                  nonTask >>

\* updateRequired = false; (Grid: didRequireRender = renderRequired;
\* renderRequired = false; updateRequired = false;)
DisplayClear ==
  /\ displayTaskHandle /\ displayPc = "clear"
  /\ updateRequired' = FALSE
  /\ renderRequired' = FALSE
  /\ didRequireRender' = (taskKind = "Grid" /\ renderRequired)
  /\ displayPc' = IF taskKind = "File" THEN "render" ELSE "take"
  /\ UNCHANGED << taskKind, renderingMutex, displayTaskHandle, taskSelectorIndex,
                  shownIndex, stale, mainLocals, nonTask >>

\* the render function is entered and reads selectorIndex
DisplayRender ==
  /\ displayTaskHandle /\ displayPc = "render"
  /\ shownIndex' = taskSelectorIndex
  /\ stale' = FALSE
  /\ displayPc' = "rendering"
  /\ UNCHANGED << taskKind, renderingMutex, displayTaskHandle, taskSelectorIndex,
                  updateRequired, renderRequired, didRequireRender, mainLocals,
                  nonTask >>

\* variant: the request flags are cleared when the render function returns
DisplayRenderEndClearing ==
  /\ displayTaskHandle /\ displayPc = "rendering"
  /\ displayPc' = "give"
  /\ updateRequired' = FALSE
  /\ renderRequired' = FALSE
  /\ UNCHANGED << taskKind, renderingMutex, displayTaskHandle, taskSelectorIndex,
                  displayLocals, stale, mainLocals, nonTask >>

\* the render function returns (the display was refreshed)
DisplayRenderEnd ==
  /\ displayTaskHandle /\ displayPc = "rendering"
  /\ displayPc' = "give"
  /\ UNCHANGED << taskKind, renderingMutex, displayTaskHandle, taskSelectorIndex,
                  updateRequired, renderRequired, displayLocals, stale, mainLocals,
                  nonTask >>

\* xSemaphoreGive(renderingMutex)
DisplayGive ==
  /\ displayTaskHandle /\ displayPc = "give"
  /\ renderingMutex' = "free"
  /\ displayPc' = "delay"
  /\ UNCHANGED << taskKind, displayTaskHandle, taskSelectorIndex, updateRequired,
                  renderRequired, displayLocals, stale, mainLocals, nonTask >>

\* vTaskDelay(10 / portTICK_PERIOD_MS) and the next iteration of while (true)
DisplayDelay ==
  /\ displayTaskHandle /\ displayPc = "delay"
  /\ displayPc' = IF taskKind = "File" THEN "take" ELSE "check"
  /\ UNCHANGED << taskKind, renderingMutex, displayTaskHandle, taskSelectorIndex,
                  updateRequired, renderRequired, displayLocals, stale, mainLocals,
                  nonTask >>

\* loop(), prev or next released: selectorIndex moves by one, cyclically
LoopSelect ==
  /\ loopPc = "idle" /\ exitPc = "none"
  /\ \E step \in {1, MaxTaskItems - 1} :
       taskSelectorIndex' = (taskSelectorIndex + step) % MaxTaskItems
  /\ stale' = TRUE
  /\ loopPc' = IF taskKind = "File" THEN "take" ELSE "flag"
  /\ UNCHANGED << taskKind, renderingMutex, displayTaskHandle, displayPc,
                  updateRequired, renderRequired, displayLocals, exitPc,
                  exitSawRender, nonTask >>

\* FileSelectionActivity::loop, a directory is entered or left:
\* xSemaphoreTake(renderingMutex, portMAX_DELAY)
LoopLoadTake ==
  /\ taskKind = "File"
  /\ loopPc = "idle" /\ exitPc = "none"
  /\ renderingMutex = "free"
  /\ renderingMutex' = "loop"
  /\ loopPc' = "load"
  /\ UNCHANGED << taskKind, displayTaskHandle, displayPc, taskSelectorIndex,
                  updateRequired, renderRequired, displayLocals, stale, exitPc,
                  exitSawRender, nonTask >>

\* loadFiles(): files.clear(); selectorIndex = 0; the list is read again
LoopLoadFiles ==
  /\ loopPc = "load"
  /\ taskSelectorIndex' = 0
  /\ stale' = TRUE
  /\ loopPc' = "flag"
  /\ UNCHANGED << taskKind, renderingMutex, displayTaskHandle, displayPc,
                  updateRequired, renderRequired, displayLocals, exitPc,
                  exitSawRender, nonTask >>

\* GridBrowserActivity::loop, the page changes: onPageChanged()
LoopPageChanged ==
  /\ taskKind = "Grid"
  /\ loopPc = "idle" /\ exitPc = "none"
  /\ taskSelectorIndex' = 0
  /\ renderRequired' = TRUE
  /\ stale' = TRUE
  /\ UNCHANGED << taskKind, renderingMutex, displayTaskHandle, displayPc,
                  updateRequired, displayLocals, mainLocals, nonTask >>

\* FileSelectionActivity::loop, after the selection moved:
\* xSemaphoreTake(renderingMutex, portMAX_DELAY)
LoopTake ==
  /\ loopPc = "take"
  /\ renderingMutex = "free"
  /\ renderingMutex' = "loop"
  /\ loopPc' = "flag"
  /\ UNCHANGED << taskKind, displayTaskHandle, displayPc, taskSelectorIndex,
                  updateRequired, renderRequired, displayLocals, stale, exitPc,
                  exitSawRender, nonTask >>

\* updateRequired = true
LoopFlag ==
  /\ loopPc = "flag"
  /\ updateRequired' = TRUE
  /\ loopPc' = IF taskKind = "File" THEN "give" ELSE "idle"
  /\ UNCHANGED << taskKind, renderingMutex, displayTaskHandle, displayPc,
                  taskSelectorIndex, renderRequired, displayLocals, stale, exitPc,
                  exitSawRender, nonTask >>

\* xSemaphoreGive(renderingMutex); loop() returns
LoopGive ==
  /\ loopPc = "give"
  /\ renderingMutex' = "free"
  /\ loopPc' = "idle"
  /\ UNCHANGED << taskKind, displayTaskHandle, displayPc, taskSelectorIndex,
                  updateRequired, renderRequired, displayLocals, stale, exitPc,
                  exitSawRender, nonTask >>

\* the activity is left: onExit() is called by the task that runs loop()
OnExitCall ==
  /\ loopPc = "idle" /\ exitPc = "none"
  /\ exitPc' = "take"
  /\ exitSawRender' = (displayPc = "rendering")
  /\ UNCHANGED << taskKind, renderingMutex, displayTaskHandle, displayPc, loopPc,
                  taskSelectorIndex, updateRequired, renderRequired, displayLocals,
                  stale, nonTask >>

\* variant: onExit goes on without waiting for the mutex
OnExitTakeNoWait ==
  /\ exitPc = "take"
  /\ renderingMutex' = "exit"
  /\ exitPc' = "delete"
  /\ UNCHANGED << taskKind, displayTaskHandle, displayPc, loopPc, taskSelectorIndex,
                  updateRequired, renderRequired, displayLocals, stale,
                  exitSawRender, nonTask >>

\* xSemaphoreTake(renderingMutex, portMAX_DELAY) in onExit
OnExitTake ==
  /\ exitPc = "take"
  /\ renderingMutex = "free"
  /\ renderingMutex' = "exit"
  /\ exitPc' = "delete"
  /\ UNCHANGED << taskKind, displayTaskHandle, displayPc, loopPc, taskSelectorIndex,
                  updateRequired, renderRequired, displayLocals, stale,
                  exitSawRender, nonTask >>

\* if (displayTaskHandle) { vTaskDelete(displayTaskHandle); displayTaskHandle =
\* nullptr; } vSemaphoreDelete(renderingMutex); renderingMutex = nullptr;
OnExitDelete ==
  /\ exitPc = "delete"
  /\ displayTaskHandle' = FALSE
  /\ renderingMutex' = "deleted"
  /\ exitPc' = "done"
  /\ UNCHANGED << taskKind, displayPc, loopPc, taskSelectorIndex, updateRequired,
                  renderRequired, displayLocals, stale, exitSawRender, nonTask >>

DisplayStep ==
  \/ DisplayCheck \/ DisplayClear \/ DisplayRender \/ DisplayRenderEnd
  \/ DisplayGive \/ DisplayDelay

LoopContinue == LoopLoadFiles \/ LoopFlag \/ LoopGive

TaskNext ==
  \/ DisplayTake \/ DisplayCheck \/ DisplayClear \/ DisplayRender
  \/ DisplayRenderEnd \/ DisplayGive \/ DisplayDelay
  \/ LoopSelect \/ LoopLoadTake \/ LoopLoadFiles \/ LoopPageChanged
  \/ LoopTake \/ LoopFlag \/ LoopGive
  \/ OnExitCall \/ OnExitTake \/ OnExitDelete

SpecTask == TaskInit /\ [][TaskNext]_vars

\* the display task is inside its render function
InRender == displayPc = "rendering"

\* C21: onExit deletes the display task only while that task is outside its
\* render function and does not hold renderingMutex; once onExit is past its
\* xSemaphoreTake no render is in progress, so an onExit called during a render
\* waits for its end; and after the deletion the task takes no further step, so
\* no render starts.
C21_ExitDeletesOutsideRender ==
  /\ [][ /\ (displayTaskHandle /\ ~displayTaskHandle') =>
              (~InRender /\ displayPc # "render" /\ renderingMutex = "exit")
         /\ ~displayTaskHandle =>
              (displayPc' = displayPc /\ shownIndex' = shownIndex)
     ]_vars
  /\ [](exitPc \in {"delete", "done"} => ~InRender /\ renderingMutex # "display")

\* onExit was called while a render was in progress and has deleted the task
C21_Witness ==
  /\ exitSawRender /\ exitPc = "done" /\ ~displayTaskHandle
  /\ displayPc \in {"delay", "take", "check"}

\* Scheduling: the display task and the main task are both run again and again
\* (weak fairness of their steps); a task waiting in xSemaphoreTake gets the
\* mutex, because the other side releases it and then sleeps in vTaskDelay or
\* returns from loop() (strong fairness of the two takes).
TaskFairness ==
  /\ WF_vars(DisplayStep)
  /\ SF_vars(DisplayTake)
  /\ WF_vars(LoopContinue)
  /\ SF_vars(LoopTake)

SpecTaskFair == TaskInit /\ [][TaskNext]_vars /\ TaskFairness

\* C27: in FileSelectionActivity and the two chapter selection activities,
\* once loop() has changed selectorIndex, a render that begins after the change
\* and so reads the latest selectorIndex follows (as long as the activity is
\* not left), also when the change happens during a render.
C27_SelectionEventuallyRendered ==
  (taskKind # "Grid" /\ stale) ~> (~stale \/ exitPc # "none")

\* loop() moved the selection while a render was in progress, the request flag
\* is set again and the render in progress has read the older selection
C27_Witness ==
  /\ taskKind # "Grid" /\ stale /\ InRender /\ updateRequired
  /\ shownIndex # taskSelectorIndex /\ exitPc = "none"

(***************************************************************************)
(* SpecBw: the black-and-white buffer store of GfxRenderer                 *)
(* (storeBwBuffer, restoreBwBuffer, freeBwBufferChunks, allocateBwPools,   *)
(* the destructor), with heap_caps_malloc free to fail                     *)
(***************************************************************************)
nonBw == << converterVars, taskVars, selVars, gridVars >>

MaxBwChunks == 2

MaxBwOrphans == 2

\* BW_BUFFER_NUM_CHUNKS, the number of chunks the framebuffer is split into
BW_BUFFER_NUM_CHUNKS == MaxBwChunks

BwChunkIds == 0 .. BW_BUFFER_NUM_CHUNKS - 1

BwValues == {0, 1}

\* the state a constructed GfxRenderer starts in: nothing allocated
BwInit ==
  /\ bwHasFrame \in BOOLEAN
  /\ frameBuffer \in [BwChunkIds -> BwValues]
  /\ bwBufferPool = "null"
  /\ bwBufferChunks = [i \in BwChunkIds |-> "null"]
  /\ bwChunkData = [i \in BwChunkIds |-> -1]
  /\ bwBufferValid = FALSE
  /\ bwLivePools = 0 /\ bwLiveChunks = 0 /\ bwOrphans = 0
  /\ bwLastAlloc = << >>
  /\ bwOp = "new"
  /\ bwStoreSince = FALSE
  /\ bwStoredCopy = frameBuffer
  /\ bwAllocFailed = FALSE
  /\ ConverterIdle /\ TaskIdle /\ SelIdle /\ GridIdle

\* chunk pointers among ids that own an allocation of their own
OwnedAmong(chunks, ids) == Cardinality({i \in ids : chunks[i] = "own"})

\* allocateBwPools() when the pool malloc succeeds iff poolOk and, in the
\* fallback, the malloc of chunk failAt fails (failAt = BW_BUFFER_NUM_CHUNKS:
\* none fails): the result, the pointers afterwards, the allocations made and
\* freed by the call, and the owning chunk pointers it overwrote
allocateBwPools(pool, chunks, poolOk, failAt) ==
  IF pool # "null"
  THEN [ok |-> TRUE, called |-> FALSE, pool |-> pool, chunks |-> chunks,
        newPools |-> 0, newChunks |-> 0, freed |-> 0, overwritten |-> 0]
  ELSE IF poolOk
  THEN [ok |-> TRUE, called |-> TRUE, pool |-> "pool",
        chunks |-> [i \in BwChunkIds |-> "pool"],
        newPools |-> 1, newChunks |-> 0, freed |-> 0,
        overwritten |-> OwnedAmong(chunks, BwChunkIds)]
  ELSE IF failAt = BW_BUFFER_NUM_CHUNKS
  THEN [ok |-> TRUE, called |-> TRUE, pool |-> "null",
        chunks |-> [i \in BwChunkIds |-> "own"],
        newPools |-> 0, newChunks |-> BW_BUFFER_NUM_CHUNKS, freed |-> 0,
        overwritten |-> OwnedAmong(chunks, BwChunkIds)]
  ELSE [ok |-> FALSE, called |-> TRUE, pool |-> "null",
        chunks |-> [i \in BwChunkIds |-> IF i <= failAt THEN "null" ELSE chunks[i]],
        newPools |-> 0, newChunks |-> failAt, freed |-> failAt,
        overwritten |-> OwnedAmong(chunks, 0 .. failAt)]

\* storeBwBuffer()
StoreBwBuffer ==
  /\ bwOp # "destroyed"
  /\ bwOrphans <= MaxBwOrphans
  /\ bwOp' = "store"
  /\ IF ~bwHasFrame
     THEN UNCHANGED << frameBuffer, bwBufferPool, bwBufferChunks, bwChunkData,
                       bwBufferValid, bwLivePools, bwLiveChunks, bwOrphans,
                       bwLastAlloc, bwStoreSince, bwStoredCopy, bwAllocFailed >>
     ELSE \E poolOk \in BOOLEAN, failAt \in 0 .. BW_BUFFER_NUM_CHUNKS :
            \E a \in {allocateBwPools(bwBufferPool, bwBufferChunks, poolOk, failAt)} :
              /\ bwBufferPool' = a.pool
              /\ bwBufferChunks' = a.chunks
              /\ bwLivePools' = bwLivePools + a.newPools
              /\ bwLiveChunks' = bwLiveChunks + a.newChunks - a.freed
              /\ bwOrphans' = bwOrphans + a.overwritten
              /\ bwLastAlloc' = [ok |-> a.ok, kept |-> a.newChunks - a.freed]
              /\ bwAllocFailed' = (bwAllocFailed \/ (a.called /\ (~poolOk)))
              /\ bwStoreSince' = TRUE
              /\ bwStoredCopy' = frameBuffer
              /\ IF a.ok
                 THEN /\ bwChunkData' = frameBuffer
                      /\ bwBufferValid' = TRUE
                 ELSE /\ bwChunkData' = [i \in BwChunkIds |->
                                           IF a.chunks[i] = "null" THEN -1
                                           ELSE bwChunkData[i]]
                      /\ UNCHANGED bwBufferValid
              /\ UNCHANGED frameBuffer
  /\ UNCHANGED << bwHasFrame, nonBw >>

\* variant: the stored copy stays valid after it was copied back
RestoreBwBufferKeepValid ==
  /\ bwOp # "destroyed"
  /\ bwOp' = "restore"
  /\ IF ~bwBufferValid \/ ~bwHasFrame
     THEN UNCHANGED << frameBuffer, bwBufferValid >>
     ELSE /\ \E garbage \in [BwChunkIds -> BwValues] :
               frameBuffer' = [i \in BwChunkIds |->
                                 IF bwBufferChunks[i] = "null" THEN garbage[i]
                                 ELSE bwChunkData[i]]
          /\ UNCHANGED bwBufferValid
  /\ bwStoreSince' = FALSE
  /\ UNCHANGED << bwHasFrame, bwBufferPool, bwBufferChunks, bwChunkData,
                  bwLivePools, bwLiveChunks, bwOrphans, bwLastAlloc, bwStoredCopy,
                  bwAllocFailed, nonBw >>

\* restoreBwBuffer(); a memcpy from a null chunk pointer reads anything
RestoreBwBuffer ==
  /\ bwOp # "destroyed"
  /\ bwOp' = "restore"
  /\ IF ~bwBufferValid \/ ~bwHasFrame
     THEN UNCHANGED << frameBuffer, bwBufferValid >>
     ELSE /\ \E garbage \in [BwChunkIds -> BwValues] :
               frameBuffer' = [i \in BwChunkIds |->
                                 IF bwBufferChunks[i] = "null" THEN garbage[i]
                                 ELSE bwChunkData[i]]
          /\ bwBufferValid' = FALSE
  /\ bwStoreSince' = FALSE
  /\ UNCHANGED << bwHasFrame, bwBufferPool, bwBufferChunks, bwChunkData,
                  bwLivePools, bwLiveChunks, bwOrphans, bwLastAlloc, bwStoredCopy,
                  bwAllocFailed, nonBw >>

\* freeBwBufferChunks()
FreeBwBufferChunks ==
  /\ bwOp # "destroyed"
  /\ bwOp' = "free"
  /\ bwBufferValid' = FALSE
  /\ bwStoreSince' = FALSE
  /\ UNCHANGED << bwHasFrame, frameBuffer, bwBufferPool, bwBufferChunks,
                  bwChunkData, bwLivePools, bwLiveChunks, bwOrphans, bwLastAlloc,
                  bwStoredCopy, bwAllocFailed, nonBw >>

\* drawing between the calls changes the framebuffer
DrawFrame ==
  /\ bwOp # "destroyed"
  /\ bwHasFrame
  /\ \E i \in BwChunkIds, v \in BwValues :
       /\ frameBuffer[i] # v
       /\ frameBuffer' = [frameBuffer EXCEPT ![i] = v]
  /\ bwOp' = "draw"
  /\ UNCHANGED << bwHasFrame, bwBufferPool, bwBufferChunks, bwChunkData,
                  bwBufferValid, bwLivePools, bwLiveChunks, bwOrphans, bwLastAlloc,
                  bwStoreSince, bwStoredCopy, bwAllocFailed, nonBw >>

\* ~GfxRenderer(): the pool is freed, or else every non-null chunk
DestroyRenderer ==
  /\ bwOp # "destroyed"
  /\ bwOp' = "destroyed"
  /\ IF bwBufferPool # "null"
     THEN /\ bwBufferPool' = "null"
          /\ bwLivePools' = bwLivePools - 1
          /\ UNCHANGED << bwBufferChunks, bwLiveChunks >>
     ELSE /\ bwBufferChunks' = [i \in BwChunkIds |-> "null"]
          /\ bwLiveChunks' = bwLiveChunks - OwnedAmong(bwBufferChunks, BwChunkIds)
          /\ UNCHANGED << bwBufferPool, bwLivePools >>
  /\ UNCHANGED << bwHasFrame, frameBuffer, bwChunkData, bwBufferValid, bwOrphans,
                  bwLastAlloc, bwStoreSince, bwStoredCopy, bwAllocFailed, nonBw >>

BwNext ==
  \/ StoreBwBuffer \/ RestoreBwBuffer \/ FreeBwBufferChunks \/ DrawFrame
  \/ DestroyRenderer

SpecBw == BwInit /\ [][BwNext]_vars

\* C22: with a framebuffer and no allocation failing, restoreBwBuffer changes
\* the framebuffer only if storeBwBuffer was called since the last restore or
\* free, and then the framebuffer equals what it was at the most recent such
\* store; otherwise it leaves the framebuffer as it is; after restoreBwBuffer
\* and after freeBwBufferChunks the stored copy is invalid.
C22_RestoreGivesLastStore ==
  [][ (bwHasFrame /\ ~bwAllocFailed) =>
        /\ bwOp' = "restore" =>
             /\ frameBuffer' = IF bwStoreSince THEN bwStoredCopy ELSE frameBuffer
             /\ ~bwBufferValid'
        /\ bwOp' = "free" => ~bwBufferValid'
    ]_vars

\* restoreBwBuffer has just put back, from the pool, the copy made by the most
\* recent storeBwBuffer
C22_Witness ==
  /\ bwOp = "restore" /\ bwHasFrame /\ ~bwAllocFailed /\ ~bwBufferValid
  /\ bwBufferPool = "pool"
  /\ frameBuffer = bwStoredCopy
  /\ frameBuffer = [i \in BwChunkIds |-> 1]

\* C29: storeBwBuffer never overwrites a chunk pointer that still owns memory:
\* the allocations alive are at most one pool or BW_BUFFER_NUM_CHUNKS chunks,
\* and after an allocateBwPools that failed no chunk it allocated is alive.
C29_NoOwningPointerOverwritten ==
  /\ bwOrphans = 0
  /\ bwLivePools <= 1
  /\ bwLiveChunks <= BW_BUFFER_NUM_CHUNKS
  /\ ~(bwLivePools > 0 /\ bwLiveChunks > 0)
  /\ (bwLastAlloc # << >> /\ ~bwLastAlloc.ok) => bwLastAlloc.kept = 0

(***************************************************************************)
(* SpecSel: how the button events of loop() move selectorIndex in          *)
(* FileSelectionActivity and XtcReaderChapterSelectionActivity             *)
(***************************************************************************)
nonSel == << converterVars, taskVars, bwVars, gridVars >>

PAGE_ITEMS == 20

MaxSelFiles == 22

MaxSelChapters == 5

MaxSelPageItems == 4

\* the remainder of C++ on int: it has the sign of the dividend
TruncMod(a, b) == a - b * TruncDiv(a, b)

\* 2^32 % n
Pow32Mod(n) == ((65536 % n) * (65536 % n)) % n

\* v converted to a 32-bit size_t, then % n (n > 0)
Uint32Mod(v, n) == IF v >= 0 THEN v % n ELSE (Pow32Mod(n) + (v % n)) % n

\* XtcReaderChapterSelectionActivity::getPageItems()
getPageItems(screenHeight) ==
  LET items == TruncDiv(screenHeight - 60, 30)
  IN  IF items < 1 THEN 1 ELSE items

\* XtcReaderChapterSelectionActivity::loop, prev released (total # 0), in int
xtcPrev(sel, pageItems, total, skipPage) ==
  IF skipPage
  THEN TruncMod((TruncDiv(sel, pageItems) - 1) * pageItems + total, total)
  ELSE TruncMod(sel + total - 1, total)

\* XtcReaderChapterSelectionActivity::loop, next released (total # 0), in int
xtcNext(sel, pageItems, total, skipPage) ==
  IF skipPage
  THEN TruncMod((TruncDiv(sel, pageItems) + 1) * pageItems, total)
  ELSE TruncMod(sel + 1, total)

\* FileSelectionActivity::loop, prev released, files.size() = n > 0: the sum
\* is made in size_t, so a negative page start wraps before the modulo
filePrev(sel, n, skipPage) ==
  IF skipPage
  THEN Uint32Mod((TruncDiv(sel, PAGE_ITEMS) - 1) * PAGE_ITEMS + n, n)
  ELSE Uint32Mod(sel + n - 1, n)

\* FileSelectionActivity::loop, next released, files.size() = n > 0
fileNext(sel, n, skipPage) ==
  IF skipPage
  THEN Uint32Mod((TruncDiv(sel, PAGE_ITEMS) + 1) * PAGE_ITEMS, n)
  ELSE Uint32Mod(sel + 1, n)

\* screen heights: one per number of rows 1 .. MaxSelPageItems, too small a
\* screen, and the 480 x 800 panel in both orientations
SelScreenHeights ==
  {60 + 30 * k : k \in 0 .. MaxSelPageItems} \cup {480, 800}

\* what selectorIndex may hold after x % 0 was evaluated
SelAfterDivByZero == {0, 1}

\* onEnter: FileSelectionActivity starts at 0 over the files read;
\* the chapter list starts at findChapterIndexForPage(currentPage)
SelInit ==
  /\ selKind \in {"File", "Xtc"}
  /\ IF selKind = "File"
     THEN /\ selTotal \in 0 .. MaxSelFiles
          /\ selScreenHeight = 800
          /\ selectorIndex = 0
     ELSE /\ selTotal \in 0 .. MaxSelChapters
          /\ selScreenHeight \in SelScreenHeights
          /\ selectorIndex \in (IF selTotal = 0 THEN {0} ELSE 0 .. selTotal - 1)
  /\ selDivByZero = FALSE
  /\ selOp = "enter"
  /\ ConverterIdle /\ TaskIdle /\ BwIdle /\ GridIdle

\* loop() with Up or Left released
SelPrevReleased ==
  /\ \E skipPage \in BOOLEAN :
       IF selKind = "Xtc"
       THEN IF selTotal = 0
            THEN UNCHANGED << selectorIndex, selDivByZero >>
            ELSE /\ selectorIndex' = xtcPrev(selectorIndex,
                                             getPageItems(selScreenHeight),
                                             selTotal, skipPage)
                 /\ UNCHANGED selDivByZero
       ELSE IF selTotal = 0
            THEN /\ selDivByZero' = TRUE
                 /\ selectorIndex' \in SelAfterDivByZero
            ELSE /\ selectorIndex' = filePrev(selectorIndex, selTotal, skipPage)
                 /\ UNCHANGED selDivByZero
  /\ selOp' = "prev"
  /\ UNCHANGED << selKind, selTotal, selScreenHeight, nonSel >>

\* loop() with Down or Right released
SelNextReleased ==
  /\ \E skipPage \in BOOLEAN :
       IF selKind = "Xtc"
       THEN IF selTotal = 0
            THEN UNCHANGED << selectorIndex, selDivByZero >>
            ELSE /\ selectorIndex' = xtcNext(selectorIndex,
                                             getPageItems(selScreenHeight),
                                             selTotal, skipPage)
                 /\ UNCHANGED selDivByZero
       ELSE IF selTotal = 0
            THEN /\ selDivByZero' = TRUE
                 /\ selectorIndex' \in SelAfterDivByZero
            ELSE /\ selectorIndex' = fileNext(selectorIndex, selTotal, skipPage)
                 /\ UNCHANGED selDivByZero
  /\ selOp' = "next"
  /\ UNCHANGED << selKind, selTotal, selScreenHeight, nonSel >>

\* FileSelectionActivity::loop entering or leaving a directory: loadFiles()
SelLoadFiles ==
  /\ selKind = "File"
  /\ selTotal' \in 0 .. MaxSelFiles
  /\ selectorIndex' = 0
  /\ selOp' = "load"
  /\ UNCHANGED << selKind, selScreenHeight, selDivByZero, nonSel >>

SelNext == SelPrevReleased \/ SelNextReleased \/ SelLoadFiles

SpecSel == SelInit /\ [][SelNext]_vars

\* C23: in the chapter selection activity, over n >= 1 chapters and any number
\* of items per page, every sequence of prev/next releases, short or long,
\* leaves 0 <= selectorIndex < n.
C23_ChapterIndexInRange ==
  (selKind = "Xtc" /\ selTotal >= 1) =>
     (0 <= selectorIndex /\ selectorIndex < selTotal)

\* C24: in FileSelectionActivity selectorIndex is a valid index whenever the
\* list is not empty; with an empty list a prev/next release divides by
\* nothing and leaves selectorIndex at 0.
C24_FileIndexValidNoDivByZero ==
  selKind = "File" =>
     /\ ~selDivByZero
     /\ selTotal > 0 => (0 <= selectorIndex /\ selectorIndex < selTotal)
     /\ selTotal = 0 => selectorIndex = 0

(***************************************************************************)
(* SpecGrid: GridBrowserActivity from the state onEnter leaves: loop() and *)
(* loadFiles() on the main task, displayTaskLoop/render on the display     *)
(* task, loadThumbsTaskLoop/loadThumbs on the thumbnail task. The three    *)
(* tasks interleave at every access of a shared variable that a blocking   *)
(* call (SD card, display refresh, vTaskDelay, taskYIELD) separates.       *)
(***************************************************************************)
nonGrid == << converterVars, taskVars, bwVars, selVars >>

GRID_PAGE_ITEMS == 9

MaxGridPage == 1

MaxGridSel == 1

\* directory sizes: empty, less than a page, more than a page
GridDirSizes == {0, 2, 10}

\* min(PAGE_ITEMS, files.size() - page * PAGE_ITEMS) with the int min of the
\* file: the difference is converted to int
TilesOnPage(size, pg) ==
  IF GRID_PAGE_ITEMS < size - pg * GRID_PAGE_ITEMS
  THEN GRID_PAGE_ITEMS
  ELSE size - pg * GRID_PAGE_ITEMS

\* (files.size() - 1) / PAGE_ITEMS in size_t: 0 - 1 is 4294967295
LastPage(size) ==
  IF size = 0 THEN 477218588 ELSE (size - 1) \div GRID_PAGE_ITEMS

gridNav == << gridFiles, page, gridSelectorIndex, previousSelectorIndex >>

gridFlags == << gridUpdateRequired, gridRenderRequired, thumbsLoadingRequired >>

gridDisplay == << gridDisplayPc, gridRenderI, gridRenderingMutex >>

gridThumbs == << thumbsPc, thumbsI, thumbsCount, loadThumbsMutex >>

\* onEnter: both mutexes, page = 0, loadFiles(), onPageChanged(), both tasks
GridInit ==
  /\ gridFiles \in GridDirSizes
  /\ page = 0 /\ gridSelectorIndex = 0 /\ previousSelectorIndex = -1
  /\ gridUpdateRequired = FALSE
  /\ gridRenderRequired = TRUE
  /\ thumbsLoadingRequired = TRUE
  /\ gridLoopPc = "idle"
  /\ gridDisplayPc = "check" /\ gridRenderI = 0
  /\ thumbsPc = "check" /\ thumbsI = 0 /\ thumbsCount = 0
  /\ gridRenderingMutex = "free" /\ loadThumbsMutex = "free"
  /\ thumbsStale = TRUE
  /\ ConverterIdle /\ TaskIdle /\ BwIdle /\ SelIdle

\* loop(), Confirm on a directory or Back below the root: loadFiles() up to
\* the point where it starts to read the directory
GridLoadClear ==
  /\ gridLoopPc = "idle"
  /\ gridFiles' = 0
  /\ gridSelectorIndex' = 0
  /\ previousSelectorIndex' = -1
  /\ page' = 0
  /\ gridLoopPc' = "loading"
  /\ UNCHANGED << gridFlags, gridDisplay, gridThumbs, thumbsStale, nonGrid >>

\* the rest of loadFiles(): the entries are added and sorted; onPageChanged()
GridLoadFill ==
  /\ gridLoopPc = "loading"
  /\ gridFiles' \in GridDirSizes
  /\ gridSelectorIndex' = 0
  /\ previousSelectorIndex' = -1
  /\ gridRenderRequired' = TRUE
  /\ thumbsLoadingRequired' = TRUE
  /\ thumbsStale' = TRUE
  /\ gridLoopPc' = "idle"
  /\ UNCHANGED << page, gridUpdateRequired, gridDisplay, gridThumbs, nonGrid >>

\* loop() with Up or Left released
GridPrevReleased ==
  /\ gridLoopPc = "idle"
  /\ \E skipPage \in BOOLEAN :
       IF gridSelectorIndex = 0 \/ skipPage
       THEN IF page > 0
            THEN /\ page' = page - 1
                 /\ gridSelectorIndex' = 0
                 /\ previousSelectorIndex' = -1
                 /\ gridRenderRequired' = TRUE
                 /\ thumbsLoadingRequired' = TRUE
                 /\ thumbsStale' = TRUE
                 /\ UNCHANGED gridUpdateRequired
            ELSE /\ previousSelectorIndex' = gridSelectorIndex
                 /\ UNCHANGED << page, gridSelectorIndex, gridFlags, thumbsStale >>
       ELSE /\ previousSelectorIndex' = gridSelectorIndex
            /\ gridSelectorIndex' = gridSelectorIndex - 1
            /\ gridUpdateRequired' = TRUE
            /\ UNCHANGED << page, gridRenderRequired, thumbsLoadingRequired,
                            thumbsStale >>
  /\ UNCHANGED << gridFiles, gridLoopPc, gridDisplay, gridThumbs, nonGrid >>

\* loop() with Down or Right released
GridNextReleased ==
  /\ gridLoopPc = "idle"
  /\ page < MaxGridPage
  /\ gridFiles = 0 => gridSelectorIndex < MaxGridSel
  /\ \E skipPage \in BOOLEAN :
       IF gridSelectorIndex = TilesOnPage(gridFiles, page) - 1 \/ skipPage
       THEN IF page < LastPage(gridFiles)
            THEN /\ page' = page + 1
                 /\ gridSelectorIndex' = 0
                 /\ previousSelectorIndex' = -1
                 /\ gridRenderRequired' = TRUE
                 /\ thumbsLoadingRequired' = TRUE
                 /\ thumbsStale' = TRUE
                 /\ UNCHANGED gridUpdateRequired
            ELSE /\ previousSelectorIndex' = gridSelectorIndex
                 /\ UNCHANGED << page, gridSelectorIndex, gridFlags, thumbsStale >>
       ELSE /\ previousSelectorIndex' = gridSelectorIndex
            /\ gridSelectorIndex' = gridSelectorIndex + 1
            /\ gridUpdateRequired' = TRUE
            /\ UNCHANGED << page, gridRenderRequired, thumbsLoadingRequired,
                            thumbsStale >>
  /\ UNCHANGED << gridFiles, gridLoopPc, gridDisplay, gridThumbs, nonGrid >>

\* displayTaskLoop: if (renderRequired || updateRequired)
GridDisplayCheck ==
  /\ gridDisplayPc = "check"
  /\ gridDisplayPc' = IF gridRenderRequired \/ gridUpdateRequired
                      THEN "clear" ELSE "delay"
  /\ UNCHANGED << gridNav, gridFlags, gridLoopPc, gridRenderI, gridRenderingMutex,
                  gridThumbs, thumbsStale, nonGrid >>

\* renderRequired = false; updateRequired = false;
GridDisplayClear ==
  /\ gridDisplayPc = "clear"
  /\ gridRenderRequired' = FALSE
  /\ gridUpdateRequired' = FALSE
  /\ gridDisplayPc' = "take"
  /\ UNCHANGED << gridNav, thumbsLoadingRequired, gridLoopPc, gridRenderI,
                  gridRenderingMutex, gridThumbs, thumbsStale, nonGrid >>

\* xSemaphoreTake(renderingMutex, portMAX_DELAY)
GridDisplayTake ==
  /\ gridDisplayPc = "take"
  /\ gridRenderingMutex = "free"
  /\ gridRenderingMutex' = "display"
  /\ gridDisplayPc' = "render"
  /\ UNCHANGED << gridNav, gridFlags, gridLoopPc, gridRenderI, gridThumbs,
                  thumbsStale, nonGrid >>

\* render(): the frame is drawn; if (!files.empty()) the tile loop starts
GridRenderBegin ==
  /\ gridDisplayPc = "render"
  /\ gridRenderI' = 0
  /\ gridDisplayPc' = IF gridFiles = 0 THEN "give" ELSE "tile"
  /\ UNCHANGED << gridNav, gridFlags, gridLoopPc, gridRenderingMutex, gridThumbs,
                  thumbsStale, nonGrid >>

\* the loop test i < min(...) of render(), a size_t compared with an int
RenderLoopTest(i, size, pg) ==
  TilesOnPage(size, pg) < 0 \/ i < TilesOnPage(size, pg)

\* one iteration of the tile loop: files[i + page * PAGE_ITEMS] is copied and
\* drawn (SD card reads); after the last one update(false) and displayBuffer()
GridRenderTile ==
  /\ gridDisplayPc = "tile"
  /\ IF RenderLoopTest(gridRenderI, gridFiles, page)
        /\ gridRenderI < GRID_PAGE_ITEMS
     THEN /\ gridRenderI' = gridRenderI + 1
          /\ UNCHANGED gridDisplayPc
     ELSE /\ gridDisplayPc' = "give"
          /\ UNCHANGED gridRenderI
  /\ UNCHANGED << gridNav, gridFlags, gridLoopPc, gridRenderingMutex, gridThumbs,
                  thumbsStale, nonGrid >>

\* xSemaphoreGive(renderingMutex)
GridDisplayGive ==
  /\ gridDisplayPc = "give"
  /\ gridRenderingMutex' = "free"
  /\ gridDisplayPc' = "delay"
  /\ UNCHANGED << gridNav, gridFlags, gridLoopPc, gridRenderI, gridThumbs,
                  thumbsStale, nonGrid >>

\* vTaskDelay(10 / portTICK_PERIOD_MS)
GridDisplayDelay ==
  /\ gridDisplayPc = "delay"
  /\ gridDisplayPc' = "check"
  /\ UNCHANGED << gridNav, gridFlags, gridLoopPc, gridRenderI, gridRenderingMutex,
                  gridThumbs, thumbsStale, nonGrid >>

\* loadThumbsTaskLoop: if (thumbsLoadingRequired)
ThumbsCheck ==
  /\ thumbsPc = "check"
  /\ thumbsPc' = IF thumbsLoadingRequired THEN "take" ELSE "delay"
  /\ UNCHANGED << gridNav, gridFlags, gridLoopPc, gridDisplay, thumbsI,
                  thumbsCount, loadThumbsMutex, thumbsStale, nonGrid >>

\* xSemaphoreTake(loadThumbsMutex, portMAX_DELAY)
ThumbsTake ==
  /\ thumbsPc = "take"
  /\ loadThumbsMutex = "free"
  /\ loadThumbsMutex' = "thumbs"
  /\ thumbsPc' = "begin"
  /\ UNCHANGED << gridNav, gridFlags, gridLoopPc, gridDisplay, thumbsI,
                  thumbsCount, thumbsStale, nonGrid >>

\* loadThumbs() starts: thumbsCount is computed once, for the page of now
ThumbsBegin ==
  /\ thumbsPc = "begin"
  /\ thumbsCount' = TilesOnPage(gridFiles, page)
  /\ thumbsI' = 0
  /\ thumbsStale' = FALSE
  /\ thumbsPc' = "load"
  /\ UNCHANGED << gridNav, gridFlags, gridLoopPc, gridDisplay, loadThumbsMutex,
                  nonGrid >>

\* one iteration of the loop of loadThumbs(): files[i + page * PAGE_ITEMS] is
\* copied; for an epub without thumbnail loadEpubThumb runs next
ThumbsTile ==
  /\ thumbsPc = "load"
  /\ IF thumbsI < thumbsCount
     THEN \E epubWithoutThumb \in BOOLEAN :
            IF epubWithoutThumb
            THEN thumbsPc' = "store" /\ UNCHANGED thumbsI
            ELSE thumbsI' = thumbsI + 1 /\ UNCHANGED thumbsPc
     ELSE thumbsPc' = "give" /\ UNCHANGED thumbsI
  /\ UNCHANGED << gridNav, gridFlags, gridLoopPc, gridDisplay, thumbsCount,
                  loadThumbsMutex, thumbsStale, nonGrid >>

\* after loadEpubThumb: files[i + page * PAGE_ITEMS].thumbPath = thumbPath;
\* renderRequired = true; taskYIELD();
ThumbsStore ==
  /\ thumbsPc = "store"
  /\ gridRenderRequired' = TRUE
  /\ thumbsI' = thumbsI + 1
  /\ thumbsPc' = "load"
  /\ UNCHANGED << gridNav, gridUpdateRequired, thumbsLoadingRequired, gridLoopPc,
                  gridDisplay, thumbsCount, loadThumbsMutex, thumbsStale, nonGrid >>

\* xSemaphoreGive(loadThumbsMutex)
ThumbsGive ==
  /\ thumbsPc = "give"
  /\ loadThumbsMutex' = "free"
  /\ thumbsPc' = "clear"
  /\ UNCHANGED << gridNav, gridFlags, gridLoopPc, gridDisplay, thumbsI,
                  thumbsCount, thumbsStale, nonGrid >>

\* thumbsLoadingRequired = false
ThumbsClear ==
  /\ thumbsPc = "clear"
  /\ thumbsLoadingRequired' = FALSE
  /\ thumbsPc' = "delay"
  /\ UNCHANGED << gridNav, gridUpdateRequired, gridRenderRequired, gridLoopPc,
                  gridDisplay, thumbsI, thumbsCount, loadThumbsMutex, thumbsStale,
                  nonGrid >>

\* vTaskDelay(10 / portTICK_PERIOD_MS)
ThumbsDelay ==
  /\ thumbsPc = "delay"
  /\ thumbsPc' = "check"
  /\ UNCHANGED << gridNav, gridFlags, gridLoopPc, gridDisplay, thumbsI,
                  thumbsCount, loadThumbsMutex, thumbsStale, nonGrid >>

GridDisplayStep ==
  \/ GridDisplayCheck \/ GridDisplayClear \/ GridDisplayTake \/ GridRenderBegin
  \/ GridRenderTile \/ GridDisplayGive \/ GridDisplayDelay

ThumbsStep ==
  \/ ThumbsCheck \/ ThumbsTake \/ ThumbsBegin \/ ThumbsTile \/ ThumbsStore
  \/ ThumbsGive \/ ThumbsClear \/ ThumbsDelay

GridNext ==
  \/ GridLoadClear \/ GridLoadFill \/ GridPrevReleased \/ GridNextReleased
  \/ GridDisplayCheck \/ GridDisplayClear \/ GridDisplayTake \/ GridRenderBegin
  \/ GridRenderTile \/ GridDisplayGive \/ GridDisplayDelay
  \/ ThumbsCheck \/ ThumbsTake \/ ThumbsBegin \/ ThumbsTile \/ ThumbsStore
  \/ ThumbsGive \/ ThumbsClear \/ ThumbsDelay

\* Scheduling: each of the two tasks, and a loadFiles() under way, is run again
\* and again; nobody else takes either mutex.
GridFairness ==
  /\ WF_vars(GridDisplayStep)
  /\ WF_vars(ThumbsStep)
  /\ WF_vars(GridLoadFill)

SpecGrid == GridInit /\ [][GridNext]_vars /\ GridFairness

\* the display task is inside render()
GridInRender == gridDisplayPc \in {"render", "tile"}

\* the thumbnail task is inside loadThumbs()
GridInLoadThumbs == thumbsPc \in {"begin", "load", "store"}

\* the next access files[i + page * PAGE_ITEMS] of either task, if it is about
\* to make one, names an entry that exists
GridIndexesExist ==
  /\ (gridDisplayPc = "tile" /\ RenderLoopTest(gridRenderI, gridFiles, page)) =>
        gridRenderI + page * GRID_PAGE_ITEMS < gridFiles
  /\ (thumbsPc = "load" /\ thumbsI < thumbsCount) =>
        thumbsI + page * GRID_PAGE_ITEMS < gridFiles
  /\ thumbsPc = "store" => thumbsI + page * GRID_PAGE_ITEMS < gridFiles

\* C25: the file list is not cleared or refilled while the display task is
\* inside render() or the thumbnail task inside loadThumbs(), and both tasks
\* index files only at positions that exist.
C25_FilesStableWhileTasksRead ==
  /\ [][ gridLoopPc' # gridLoopPc => (~GridInRender /\ ~GridInLoadThumbs) ]_vars
  /\ []GridIndexesExist

\* C26: every page change is eventually followed by a loadThumbs run that
\* starts after it.
C26_PageChangeLoadsThumbs == thumbsStale ~> ~thumbsStale

\* C28: page >= 0 and 0 <= selectorIndex < 9 always; with files the selected
\* position page * 9 + selectorIndex exists; with no files page and
\* selectorIndex stay 0.
C28_GridSelectionInRange ==
  /\ page >= 0
  /\ 0 <= gridSelectorIndex /\ gridSelectorIndex < GRID_PAGE_ITEMS
  /\ gridFiles > 0 => page * GRID_PAGE_ITEMS + gridSelectorIndex < gridFiles
  /\ gridFiles = 0 => (page = 0 /\ gridSelectorIndex = 0)

(***************************************************************************)
(* FloydSteinbergDitherer                                                  *)
(***************************************************************************)

isReverseRow(rowCnt) == rowCnt % 2 # 0

\* variant: the shares of the next row are not mirrored on a reverse row
fsProcessPixelUnmirrored(cur, next, levelCount, gray, x, reverseDirection) ==
  LET adjusted == Clamp255(adjustPixel(gray) + cur[x + 1])
      q == quantizeAdjustedWithValue(adjusted, levelCount)
      error == adjusted - q.quantizedValue
      below == AddError(AddError(AddError(next, x, (error * 3) \div 16),
                                 x + 1, (error * 5) \div 16),
                        x + 2, error \div 16)
  IN  IF ~reverseDirection
        THEN [cur |-> AddError(cur, x + 2, (error * 7) \div 16), next |-> below,
              level |-> q.level, ahead |-> x + 1]
        ELSE [cur |-> AddError(cur, x, (error * 7) \div 16), next |-> below,
              level |-> q.level, ahead |-> x - 1]

\* processPixel(gray, x, reverseDirection): the two rows afterwards, the level,
\* and the pixel of the current row that received the 7/16 share
fsProcessPixel(cur, next, levelCount, gray, x, reverseDirection) ==
  LET adjusted == Clamp255(adjustPixel(gray) + cur[x + 1])
      q == quantizeAdjustedWithValue(adjusted, levelCount)
      error == adjusted - q.quantizedValue
  IN  IF ~reverseDirection
        THEN [cur |-> AddError(cur, x + 2, (error * 7) \div 16),
              next |-> AddError(AddError(AddError(next, x, (error * 3) \div 16),
                                         x + 1, (error * 5) \div 16),
                                x + 2, error \div 16),
              level |-> q.level, ahead |-> x + 1]
        ELSE [cur |-> AddError(cur, x, (error * 7) \div 16),
              next |-> AddError(AddError(AddError(next, x + 2, (error * 3) \div 16),
                                         x + 1, (error * 5) \div 16),
                                x, error \div 16),
              level |-> q.level, ahead |-> x - 1]

(***************************************************************************)
(* SpecFS: the pixel loop of one output row after the other (lines 636-652) *)
(* with the Floyd-Steinberg ditherer active                                *)
(***************************************************************************)
nonFs == << convVars, fitVars, hdrVars, packVars, moreVars >>

GraySamples == {0, 100, 255}

FsInit ==
  /\ fsWidth \in 1 .. MaxFsW
  /\ fsLevelCount \in {2, 4}
  /\ errorCurRow = ZeroRow(fsWidth + 2)
  /\ errorNextRow = ZeroRow(fsWidth + 2)
  /\ fsRowCount = 0
  /\ fsY = 0 /\ fsX = 0 /\ fsOrder = << >> /\ fsAhead = -1
  /\ fsGray = -1 /\ fsNextRows = 0
  /\ ConvIdle /\ FitIdle /\ HdrIdle /\ PackIdle /\ MoreIdle

\* one iteration of for (x = 0; x < outWidth; x++):
\* fsDitherer->processPixel(gray, x, fsDitherer->isReverseRow())
FsPixel ==
  /\ fsY < MaxFsRows
  /\ fsX < fsWidth
  /\ \E gray \in GraySamples :
       \E r \in {fsProcessPixel(errorCurRow, errorNextRow, fsLevelCount, gray, fsX,
                                isReverseRow(fsRowCount))} :
         /\ errorCurRow' = r.cur
         /\ errorNextRow' = r.next
         /\ fsAhead' = r.ahead
         /\ fsGray' = gray
  /\ fsOrder' = Append(fsOrder, fsX)
  /\ fsX' = fsX + 1
  /\ UNCHANGED << fsWidth, fsLevelCount, fsRowCount, fsY, fsNextRows, nonFs >>

\* the end of the row: fsDitherer->nextRow(), the row is written, next y
FsNextRow ==
  /\ fsY < MaxFsRows
  /\ fsX = fsWidth
  /\ errorCurRow' = errorNextRow
  /\ errorNextRow' = ZeroRow(fsWidth + 2)
  /\ fsRowCount' = fsRowCount + 1
  /\ fsY' = fsY + 1
  /\ fsX' = 0
  /\ fsOrder' = << >>
  /\ fsAhead' = -1
  /\ fsGray' = -1
  /\ fsNextRows' = fsNextRows + 1
  /\ UNCHANGED << fsWidth, fsLevelCount, nonFs >>

\* reset(), called between two rows: both rows cleared, rowCount = 0
FsReset ==
  /\ fsY < MaxFsRows
  /\ fsX = 0
  /\ fsRowCount > 0
  /\ errorCurRow' = ZeroRow(fsWidth + 2)
  /\ errorNextRow' = ZeroRow(fsWidth + 2)
  /\ fsRowCount' = 0
  /\ fsNextRows' = 0
  /\ UNCHANGED << fsWidth, fsLevelCount, fsY, fsX, fsOrder, fsAhead, fsGray, nonFs >>

FsNext == FsPixel \/ FsNextRow \/ FsReset

SpecFS == FsInit /\ [][FsNext]_vars

\* the cell of pixel x in an error row of the Floyd-Steinberg ditherer
FsCell(x) == x + 1

\* the row afterwards is the row before plus gain[x] in the cell of each pixel
\* x of the domain of gain
FsRowGains(before, after, gain) ==
  after = [i \in DOMAIN before |->
             before[i] + (IF \E x \in DOMAIN gain : FsCell(x) = i
                            THEN gain[CHOOSE x \in DOMAIN gain : FsCell(x) = i]
                            ELSE 0)]

\* C16: a pixel step at x with e = adjusted - reconstructed adds (7e)>>4 to
\* (x+1,y), (3e)>>4 to (x-1,y+1), (5e)>>4 to (x,y+1) and e>>4 to (x+1,y+1) on
\* a non-reverse row and the mirror image on a reverse row, and nothing else;
\* isReverseRow is true exactly when the number of nextRow calls since
\* construction or reset is odd; nextRow makes the old next row the current
\* one and leaves a zero next row.
C16_FloydSteinbergShares ==
  [][ /\ isReverseRow(fsRowCount) <=> (fsNextRows % 2 = 1)
      /\ isReverseRow(fsRowCount') <=> (fsNextRows' % 2 = 1)
      /\ fsX' = fsX + 1 =>
           LET adjusted == Clamp255(adjustPixel(fsGray') + errorCurRow[FsCell(fsX)])
               reconstructed ==
                 (((adjusted * fsLevelCount) \div 256) * 255) \div (fsLevelCount - 1)
               e == adjusted - reconstructed
               ahead == IF fsNextRows % 2 = 1 THEN -1 ELSE 1
           IN  /\ FsRowGains(errorCurRow, errorCurRow',
                             (fsX + ahead) :> ((7 * e) \div 16))
               /\ FsRowGains(errorNextRow, errorNextRow',
                             (fsX - ahead) :> ((3 * e) \div 16)
                               @@ fsX :> ((5 * e) \div 16)
                               @@ (fsX + ahead) :> (e \div 16))
      /\ fsY' = fsY + 1 =>
           /\ errorCurRow' = errorNextRow
           /\ \A i \in DOMAIN errorNextRow' : errorNextRow'[i] = 0
           /\ fsNextRows' = fsNextRows + 1
    ]_vars

\* two pixels of a reverse row processed, with error handed down to the row
\* below on both sides
C16_Witness ==
  /\ fsRowCount = 1 /\ fsY = 1 /\ fsX = 2 /\ fsWidth = 3
  /\ errorNextRow[FsCell(2)] # 0 /\ errorNextRow[FsCell(0)] # 0

\* C5: with Floyd-Steinberg active, even output rows are processed with x
\* increasing from 0 and odd rows with x decreasing from width-1, so the 7/16
\* share always lands on a pixel of the row that is still to be processed.
C5_SerpentineScanOrder ==
  /\ \A i \in 1 .. Len(fsOrder) :
       fsOrder[i] = (IF fsY % 2 = 0 THEN i - 1 ELSE fsWidth - i)
  /\ (fsOrder # << >> /\ fsAhead \in 0 .. fsWidth - 1) =>
       fsAhead \notin {fsOrder[i] : i \in 1 .. Len(fsOrder)}

(***************************************************************************)
(* SpecDither: the pixel loop with either error-diffusion ditherer         *)
(***************************************************************************)
DitherInit == AtkInit \/ FsInit

DitherNext ==
  \/ (atkWidth > 0 /\ AtkPixel)
  \/ (atkWidth > 0 /\ AtkNextRow)
  \/ (fsWidth > 0 /\ FsPixel)
  \/ (fsWidth > 0 /\ FsNextRow)
  \/ (fsWidth > 0 /\ FsReset)

SpecDither == DitherInit /\ [][DitherNext]_vars

\* variant: a share is also stored three cells to the right
atkTouchedWide(x) == {x + 2, x + 3, x + 4, x + 1, x + 5}

\* the indexes AtkinsonDitherer::processPixel(gray, x) uses in its error rows
atkTouched(x) == {x + 2, x + 3, x + 4, x + 1}

\* the indexes FloydSteinbergDitherer::processPixel(gray, x, reverseDirection)
\* uses in its error rows
fsTouched(x, reverseDirection) ==
  IF ~reverseDirection THEN {x + 1, x + 2, x} ELSE {x + 1, x, x + 2}

INT16_MIN == -32768

INT16_MAX == 32767

\* every cell of the row is a value of int16_t
RowInInt16(row) == \A i \in DOMAIN row : INT16_MIN <= row[i] /\ row[i] <= INT16_MAX

\* no cell of the row moved by more than one full error, so no += wrapped
RowStepNoWrap(before, after) ==
  \A i \in DOMAIN before : after[i] - before[i] \in -255 .. 255

\* C30: for every width w >= 1 and every x in 0..w-1, in either direction,
\* processPixel uses only indexes inside the error rows (w + 4 cells for
\* Atkinson, w + 2 for Floyd-Steinberg), and over the rows of an image every
\* error cell holds a value of int16_t that no addition has wrapped.
C30_DitherRowsInBounds ==
  /\ [](atkWidth > 0 =>
          /\ DOMAIN errorRow0 = 0 .. atkWidth + 3
          /\ DOMAIN errorRow1 = 0 .. atkWidth + 3
          /\ DOMAIN errorRow2 = 0 .. atkWidth + 3
          /\ \A x \in 0 .. atkWidth - 1 : atkTouched(x) \subseteq 0 .. atkWidth + 3
          /\ RowInInt16(errorRow0) /\ RowInInt16(errorRow1) /\ RowInInt16(errorRow2))
  /\ [](fsWidth > 0 =>
          /\ DOMAIN errorCurRow = 0 .. fsWidth + 1
          /\ DOMAIN errorNextRow = 0 .. fsWidth + 1
          /\ \A x \in 0 .. fsWidth - 1 : \A reverseDirection \in BOOLEAN :
               fsTouched(x, reverseDirection) \subseteq 0 .. fsWidth + 1
          /\ RowInInt16(errorCurRow) /\ RowInInt16(errorNextRow))
  /\ [][ /\ (atkWidth > 0 /\ atkX' = atkX + 1) =>
              /\ RowStepNoWrap(errorRow0, errorRow0')
              /\ RowStepNoWrap(errorRow1, errorRow1')
              /\ RowStepNoWrap(errorRow2, errorRow2')
         /\ (fsWidth > 0 /\ fsX' = fsX + 1) =>
              /\ RowStepNoWrap(errorCurRow, errorCurRow')
              /\ RowStepNoWrap(errorNextRow, errorNextRow')
     ]_vars

\* a reverse row of the Floyd-Steinberg ditherer, three pixels wide, has been
\* processed and both outermost cells of the rows hold a share
C30_Witness ==
  /\ fsWidth = 3 /\ fsRowCount = 1 /\ fsX = 3
  /\ errorCurRow[0] # 0 /\ errorNextRow[fsWidth + 1] # 0

====
